---------------------------- MODULE Spec2Model ----------------------------
(***************************************************************************)
(* A model of rage_platformer (Bevy 0.14 + avian2d): the session state     *)
(* machine, the level-content lifecycle, the checkpoint save/restore, the  *)
(* slider-platform kinematics and the character controller.                *)
(*                                                                         *)
(* One frame of the application is modelled as the sequence of Bevy        *)
(* schedules First, StateTransition, Update, SpawnScene, PostUpdate.  The  *)
(* systems of the Update schedule run in any order that respects their     *)
(* .chain() edges and the shared command sync point that Bevy inserts      *)
(* after a chained system with deferred parameters.  Commands are          *)
(* buffered and applied at that sync point and at the end of Update.       *)
(*                                                                         *)
(* Vectors are pairs <<x, y>>.  Option<T> is a sequence of length 0 or 1.  *)
(* The slider progress t is fixed point with TScale units for 1.0, and     *)
(* time deltas are in milliseconds.                                        *)
(***************************************************************************)
EXTENDS Integers, Sequences, FiniteSets, TLC

(***************************************************************************)
(* Program constants.                                                      *)
(***************************************************************************)
PLAYER_SIZE_Y == 40
BOTTOM_WORLD_BOUNDARY == -500
SPIKE_SIZE == 24
LevelCount == 2

(* Fixed-point unit of MovingPlatform.t and of delta_t_per_second. *)
TScale == 1000

(***************************************************************************)
(* Bounds of the model.                                                    *)
(***************************************************************************)
MaxDeaths == 2
MaxTime == 2
MaxContacts == 2
MaxReach == 2
MaxBacklog == 2
MaxScenes == 1
MaxLevels == 19

None == <<>>
Some(v) == <<v>>
IsSome(o) == Len(o) = 1
IsNone(o) == Len(o) = 0
Unwrap(o) == o[1]

Abs(n) == IF n < 0 THEN -n ELSE n
Origin == <<0, 0>>
Zero == <<0, 0>>

(* Rust's % on a non-negative dividend. *)
Rem(a, b) == a % b

ISqrt(n) == CHOOSE r \in 0..n : r * r <= n /\ (r + 1) * (r + 1) > n

Distance(a, b) ==
    IF a[2] = b[2] THEN Abs(b[1] - a[1])
    ELSE IF a[1] = b[1] THEN Abs(b[2] - a[2])
    ELSE ISqrt((b[1] - a[1]) * (b[1] - a[1]) + (b[2] - a[2]) * (b[2] - a[2]))

(* Vec3::lerp at fixed-point t. *)
Lerp(a, b, t) ==
    << a[1] + ((b[1] - a[1]) * t) \div TScale,
       a[2] + ((b[2] - a[2]) * t) \div TScale >>

Clamp(v, lo, hi) == IF v < lo THEN lo ELSE IF v > hi THEN hi ELSE v

(***************************************************************************)
(* Level scripts: the ordered generator calls of each level.               *)
(***************************************************************************)
OpPlatform(pos, size) == [op |-> "platform", pos |-> pos, size |-> size]
OpSlider(a, b, size, speed) ==
    [op |-> "slider_platform", a |-> a, b |-> b, size |-> size, speed |-> speed]
OpSpike(pos) == [op |-> "spike", pos |-> pos]
OpSpikeGroup(sx, ex, y) == [op |-> "spike_group", start_x |-> sx, end_x |-> ex, y |-> y]
OpCheckpoint(pos) == [op |-> "checkpoint", pos |-> pos]
OpEnding(pos) == [op |-> "ending", pos |-> pos]

Level0 ==
    << OpPlatform(<<-500, -30>>, 1000),
       OpPlatform(<<-400, 0>>, 200),
       OpSpike(<<100, -30>>),
       OpCheckpoint(<<200, -30>>),
       OpCheckpoint(<<300, -30>>),
       OpSlider(<<550, -30>>, <<950, -30>>, 200, 250),
       OpPlatform(<<1200, 0>>, 400),
       OpEnding(<<1500, 0>>),
       OpSpikeGroup(-600, -500, -100),
       OpSpikeGroup(550, 950, -100),
       OpSpikeGroup(-30, 10, -500) >>

Level1 ==
    << OpPlatform(<<-500, -30>>, 1000),
       OpSlider(<<550, -30>>, <<1050, -30>>, 200, 250),
       OpCheckpoint(<<200, -30>>) >>

Script(idx) == IF idx = 0 THEN Level0 ELSE Level1

(* Mutation of ValidIndex: the index after the last level has a script. *)
ValidIndexOpen(idx) == idx \in 0..LevelCount

ValidIndex(idx) == idx \in 0..(LevelCount - 1)

(* setup_menu: the slots that hold a level button, one per level index     *)
(* below level_count.                                                      *)
LevelButtons == 0..(LevelCount - 1)

(***************************************************************************)
(* LevelGenerator: the entities each build operation spawns.               *)
(***************************************************************************)
LevelTextEntity(index) == [kind |-> "text", index |-> index]

PlatformEntity(pos, size) ==
    [kind |-> "platform", pos |-> <<pos[1] + size \div 2, pos[2]>>, size |-> size]

SliderEntity(a, b, size, speed) ==
    LET va == <<a[1] + size \div 2, a[2]>>
        vb == <<b[1] + size \div 2, b[2]>>
    IN [kind |-> "slider", pos |-> va, size |-> size,
        a |-> va, b |-> vb, speed |-> speed,
        delta_t_per_second |-> (speed * TScale) \div Distance(va, vb),
        active |-> FALSE, t |-> 0, moving_backward |-> FALSE,
        contact |-> FALSE]

EndingEntity(pos) == [kind |-> "ending", pos |-> <<pos[1], pos[2] + 25>>, contact |-> FALSE]

SpikeBase(pos, group) ==
    [pos |-> pos, group |-> group, visible |-> FALSE, contact |-> FALSE]

CheckpointEntity(pos) == [pos |-> pos, active |-> FALSE, contact |-> FALSE]

(* Mutation of SpikeRun: the loop stops before end_x. *)
RECURSIVE SpikeRunStrict(_, _, _, _)
SpikeRunStrict(x, end_x, y, group) ==
    IF x < end_x
    THEN <<SpikeBase(<<x, y>>, Some(group))>>
         \o SpikeRunStrict(x + SPIKE_SIZE, end_x, y, group)
    ELSE <<>>

RECURSIVE SpikeRun(_, _, _, _)
SpikeRun(x, end_x, y, group) ==
    IF x <= end_x
    THEN <<SpikeBase(<<x, y>>, Some(group))>> \o SpikeRun(x + SPIKE_SIZE, end_x, y, group)
    ELSE <<>>

SpikeGroup(start_x, end_x, y, group) ==
    SpikeRun(Rem(end_x - start_x, SPIKE_SIZE) \div 2 + start_x, end_x, y, group)

(* The generator state threaded through a script: the children added to    *)
(* the level root, the permanent spikes and checkpoints spawned, and        *)
(* current_spike_group.                                                     *)
GenNew(index) ==
    [children |-> <<LevelTextEntity(index)>>, spikes |-> <<>>,
     checkpoints |-> <<>>, current_spike_group |-> 0]

GenStep(g, o, enable_permanent_entities) ==
    CASE o.op = "platform" ->
           [g EXCEPT !.children = Append(@, PlatformEntity(o.pos, o.size))]
      [] o.op = "slider_platform" ->
           [g EXCEPT !.children = Append(@, SliderEntity(o.a, o.b, o.size, o.speed))]
      [] o.op = "ending" ->
           [g EXCEPT !.children = Append(@, EndingEntity(o.pos))]
      [] o.op = "spike" ->
           IF enable_permanent_entities
           THEN [g EXCEPT !.spikes = Append(@, SpikeBase(o.pos, None))]
           ELSE g
      [] o.op = "spike_group" ->
           IF enable_permanent_entities
           THEN [g EXCEPT !.spikes = @ \o SpikeGroup(o.start_x, o.end_x, o.y,
                                                     g.current_spike_group),
                          !.current_spike_group = @ + 1]
           ELSE g
      [] o.op = "checkpoint" ->
           IF enable_permanent_entities
           THEN [g EXCEPT !.checkpoints = Append(@, CheckpointEntity(o.pos))]
           ELSE g

RECURSIVE GenRun(_, _, _, _)
GenRun(g, script, i, enable_permanent_entities) ==
    IF i > Len(script) THEN g
    ELSE GenRun(GenStep(g, script[i], enable_permanent_entities), script, i + 1,
                enable_permanent_entities)

(* LevelGenerator::setup_level (a valid index; an invalid one panics). *)
GenerateFull(idx) == GenRun(GenNew(idx), Script(idx), 1, TRUE)

(* Mutation of GenerateEphemeral: the permanent entities are enabled. *)
GenerateEphemeralWithPermanent(idx) == GenRun(GenNew(idx), Script(idx), 1, TRUE)

(* LevelGenerator::setup_level_without_permanent_entities. *)
GenerateEphemeral(idx) == GenRun(GenNew(idx), Script(idx), 1, FALSE)


(***************************************************************************)
(* State.                                                                  *)
(***************************************************************************)
VARIABLES
    gameState,      \* State<GameState>
    nextState,      \* NextState<GameState>: Option
    players,        \* entities with Player: [pos, vel]
    levelRoots,     \* entities with LevelRoot: [children]
    spikes,         \* entities with Spike: [pos, group, visible, contact]
    checkpoints,    \* entities with Checkpoint: [pos, active, contact]
    saveData,       \* Option<SaveData>: [scene (a handle), position]
    dynamicScenes,  \* Assets<DynamicScene>: set of [id, scene]
    sceneSpawner,   \* SceneSpawner.dynamic_scenes_to_spawn: sequence of handles
    deathCounter,   \* DeathCounter
    levelStopwatch, \* Option<LevelStopwatch>: elapsed ticks
    physicsPaused,  \* Time<Physics> is paused
    restartEvents,  \* Events<LevelRestartEvent> not yet read by setup_level_content
    saveEvents,     \* Events<CheckpointSaveEvent> not yet read by create_save
    completeEvents, \* Events<LevelCompleteEvent> not yet read by on_level_completed
    deathEvents,    \* Events<DeathEvent> not yet read by update_death_counter
    commands,       \* deferred commands not yet applied
    pc,             \* the schedule the frame is in
    todo,           \* OnExit/OnEnter systems still to run in StateTransition
    done,           \* systems of Update that have run this frame
    fatal,          \* the process has panicked
    applied,        \* history: the restart event setup_level_content applied this frame
    emitted,        \* history: events sent this frame, by type
    env,            \* what the player can reach and press in this run (never changes)
    movementEvents, \* Events<MovementAction> not yet read by movement
    levelSelectPage, \* LevelSelectPage
    levelButtons    \* entities with LevelButton: [slot, idx]

worldVars == <<players, levelRoots, spikes, checkpoints>>
saveVars == <<saveData, dynamicScenes, sceneSpawner>>
counterVars == <<deathCounter, levelStopwatch>>
eventVars == <<restartEvents, saveEvents, completeEvents, deathEvents>>
stateVars == <<gameState, nextState, physicsPaused>>
frameVars == <<pc, todo, done>>
menuVars == <<levelSelectPage, levelButtons>>
vars == <<gameState, nextState, players, levelRoots, spikes, checkpoints, saveData,
          dynamicScenes, sceneSpawner, deathCounter, levelStopwatch, physicsPaused,
          restartEvents, saveEvents, completeEvents, deathEvents, commands, pc, todo,
          done, fatal, applied, emitted, env, movementEvents, levelSelectPage,
          levelButtons>>

(***************************************************************************)
(* GameState and its computed states.                                      *)
(***************************************************************************)
MainMenu == [kind |-> "MainMenu", index |-> 0, paused |-> FALSE]
LevelSelect == [kind |-> "LevelSelect", index |-> 0, paused |-> FALSE]
Level(index, paused) == [kind |-> "Level", index |-> index, paused |-> paused]

(* GameState::level *)
GameStateLevel(index) == Level(index, FALSE)

(* InLevel::compute *)
InLevel(s) == s.kind = "Level"

(* IsPaused::compute: "Paused", "Unpaused" or "None" *)
IsPaused(s) ==
    IF s.kind = "Level" THEN (IF s.paused THEN "Paused" ELSE "Unpaused") ELSE "None"

(***************************************************************************)
(* Events.  An event carries the number of event updates it has seen; an   *)
(* update drops the events that have seen one already.                     *)
(***************************************************************************)
RestoreLastSave == [type |-> "RestoreLastSave", index |-> 0]
FullReset(index) == [type |-> "FullReset", index |-> index]

Fresh(e) == [ev |-> e, age |-> 0]


EventUpdate(q) ==
    LET Young(x) == x.age = 0
        kept == SelectSeq(q, Young)
    IN [i \in 1..Len(kept) |-> [kept[i] EXCEPT !.age = 1]]

(* since_step counts the Death events sent since the last physics step. *)
NoEmitted == [death |-> 0, complete |-> 0, save |-> 0, restart |-> 0, since_step |-> 0]

(***************************************************************************)
(* Entities.                                                               *)
(***************************************************************************)
(* setup_level: the Player with its CharacterControllerBundle.  scale_y is  *)
(* Transform.scale.y in halves (2 is 1.0, 1 is 0.5).                        *)
PlayerEntity ==
    [pos |-> Origin, vel |-> Zero, scale_y |-> 2, collider_scale_y |-> 2,
     grounded |-> FALSE, ducking |-> FALSE, hits |-> {},
     movement_speed |-> 15000, jump_impulse |-> 400, max_slope_angle |-> Some(30)]

HasContact(e) == e.kind \in {"slider", "ending"}

(* DynamicSceneBuilder::extract_entities: the reflected components of the  *)
(* children; contact sets belong to the physics engine and are not         *)
(* captured.                                                               *)
Snapshot(children) ==
    [i \in 1..Len(children) |->
        IF HasContact(children[i]) THEN [children[i] EXCEPT !.contact = FALSE]
        ELSE children[i]]

(* Every child of every level root, in query order. *)
RECURSIVE AllChildrenFrom(_, _)
AllChildrenFrom(roots, i) ==
    IF i > Len(roots) THEN <<>>
    ELSE roots[i].children \o AllChildrenFrom(roots, i + 1)

AllChildren == AllChildrenFrom(levelRoots, 1)

SceneOf(id) == (CHOOSE a \in dynamicScenes : a.id = id).scene
SceneExists(id) == \E a \in dynamicScenes : a.id = id

(* Assets::add: a handle no live asset and no SaveData uses. *)
NewHandle(assets, save) ==
    LET used == {a.id : a \in assets} \cup (IF IsSome(save) THEN {Unwrap(save).scene} ELSE {})
    IN CHOOSE n \in 1..(Cardinality(used) + 1) : n \notin used

AssetsRemove(assets, id) == {a \in assets : a.id # id}

(* The environment of a run: the kinds of things the physics collaborator  *)
(* may report the player in contact with, and whether the reload key is    *)
(* ever pressed.                                                           *)
Environment(kinds, reach, reload, controller, delta, stale, buttons) ==
    [kinds |-> kinds,            \* the kinds of things the player may touch
     reach |-> reach,            \* how many hazards and checkpoints are within reach
     reload |-> reload,          \* the reload key may be pressed
     controller |-> controller,  \* move, jump and duck keys may be pressed, ground may be hit
     delta |-> delta,            \* Time::delta of a frame, in milliseconds
     stale |-> stale,            \* a frame may pass without a physics step
     buttons |-> buttons,        \* the slots of the level select whose button gets clicked
     levels |-> LevelCount]      \* what LevelGenerator::level_count returns

InitWith(e) ==
    /\ env = e
    /\ movementEvents = <<>>
    /\ levelSelectPage = 0
    /\ levelButtons = {}
    /\ gameState = MainMenu
    /\ nextState = None
    /\ players = <<>>
    /\ levelRoots = <<>>
    /\ spikes = <<>>
    /\ checkpoints = <<>>
    /\ saveData = None
    /\ dynamicScenes = {}
    /\ sceneSpawner = <<>>
    /\ deathCounter = 0
    /\ levelStopwatch = Some(0)
    /\ physicsPaused = FALSE
    /\ restartEvents = <<>>
    /\ saveEvents = <<>>
    /\ completeEvents = 0
    /\ deathEvents = 0
    /\ commands = <<>>
    /\ pc = "first"
    /\ todo = <<>>
    /\ done = {}
    /\ fatal = FALSE
    /\ applied = None
    /\ emitted = NoEmitted


(***************************************************************************)
(* Deferred commands.                                                      *)
(***************************************************************************)
CmdDespawnRoot == [c |-> "despawn_root"]
(* Mutation of CmdDespawnPermanent: the checkpoints survive a full reset. *)
CmdDespawnSpikesOnly(nSpikes, nCheckpoints) ==
    [c |-> "despawn_permanent", nSpikes |-> nSpikes, nCheckpoints |-> 0]

CmdDespawnPermanent(nSpikes, nCheckpoints) ==
    [c |-> "despawn_permanent", nSpikes |-> nSpikes, nCheckpoints |-> nCheckpoints]
(* Mutation of CmdSpawnLevel: the level root is spawned without children. *)
CmdSpawnBareRoot(g) ==
    [c |-> "spawn_level", children |-> <<>>, spikes |-> g.spikes,
     checkpoints |-> g.checkpoints]

CmdSpawnLevel(g) ==
    [c |-> "spawn_level", children |-> g.children, spikes |-> g.spikes,
     checkpoints |-> g.checkpoints]
CmdInsertSave(scene, position) ==
    [c |-> "insert_save", scene |-> scene, position |-> position]
CmdRemoveSave == [c |-> "remove_save"]
CmdInsert(entity, component) ==
    [c |-> "insert", entity |-> entity, component |-> component]
CmdRemove(entity, component) ==
    [c |-> "remove", entity |-> entity, component |-> component]

World == [levelRoots |-> levelRoots, spikes |-> spikes, checkpoints |-> checkpoints,
          saveData |-> saveData, players |-> players]

(* The marker components Grounded and Ducking of a controller. *)
WithMarker(player, component, present) ==
    IF component = "Grounded" THEN [player EXCEPT !.grounded = present]
    ELSE [player EXCEPT !.ducking = present]

(* One command applied to the world.  A despawn names the entities that    *)
(* existed when it was queued: they precede every entity spawned since.    *)
ApplyCommand(w, cmd) ==
    CASE cmd.c = "despawn_root" ->
           [w EXCEPT !.levelRoots = Tail(@)]
      [] cmd.c = "despawn_permanent" ->
           [w EXCEPT !.spikes = SubSeq(@, cmd.nSpikes + 1, Len(@)),
                     !.checkpoints = SubSeq(@, cmd.nCheckpoints + 1, Len(@))]
      [] cmd.c = "spawn_level" ->
           [w EXCEPT !.levelRoots = Append(@, [children |-> cmd.children]),
                     !.spikes = @ \o cmd.spikes,
                     !.checkpoints = @ \o cmd.checkpoints]
      [] cmd.c = "insert_save" ->
           [w EXCEPT !.saveData = Some([scene |-> cmd.scene, position |-> cmd.position])]
      [] cmd.c = "remove_save" ->
           [w EXCEPT !.saveData = None]
      [] cmd.c \in {"insert", "remove"} ->
           IF cmd.entity \in 1..Len(w.players)
           THEN [w EXCEPT !.players[cmd.entity] =
                            WithMarker(@, cmd.component, cmd.c = "insert")]
           ELSE w

RECURSIVE ApplyCommands(_, _, _)
ApplyCommands(w, cmds, i) ==
    IF i > Len(cmds) THEN w ELSE ApplyCommands(ApplyCommand(w, cmds[i]), cmds, i + 1)

(* apply_deferred *)
Flush ==
    LET w == ApplyCommands(World, commands, 1)
    IN /\ levelRoots' = w.levelRoots
       /\ spikes' = w.spikes
       /\ checkpoints' = w.checkpoints
       /\ saveData' = w.saveData
       /\ players' = w.players
       /\ commands' = <<>>

(***************************************************************************)
(* The Update schedule: which systems run in a state (run_if), and the     *)
(* order edges between them (.chain() and the sync point after a chained   *)
(* system with Commands).                                                  *)
(***************************************************************************)
GatedSystems ==
    {"moving_platform_system", "checkpoint_system", "store_save", "checkpoint_load",
     "level_complete_condition", "on_level_completed", "death_condition",
     "setup_level_content"}

(* CharacterControllerPlugin adds its systems with no run condition. *)
ControllerSystems == {"keyboard_input", "update_grounded", "update_ducking", "movement"}

(* Mutation of Active: the platform system is not gated by the pause. *)
ActivePlatformWhilePaused(s) ==
    ControllerSystems \cup {"apply_deferred"} \cup
    (CASE IsPaused(s) = "Unpaused" -> GatedSystems \cup {"pause_system"}
       [] IsPaused(s) = "Paused" ->
            {"pause_system", "resume_button_system", "exit_to_main_menu_button_system",
             "moving_platform_system"}
       [] s.kind = "MainMenu" -> {"play_button_system", "level_select_button_system"}
       [] OTHER -> {"back_button_system", "arrow_button_system", "level_button_system"})

(* .run_if(in_state(..)) of main.rs, ui/pause_menu.rs and ui/main_menu.rs; *)
(* the controller systems and the sync point run in every state.           *)
Active(s) ==
    ControllerSystems \cup {"apply_deferred"} \cup
    (CASE IsPaused(s) = "Unpaused" -> GatedSystems \cup {"pause_system"}
       [] IsPaused(s) = "Paused" ->
            {"pause_system", "resume_button_system", "exit_to_main_menu_button_system"}
       [] s.kind = "MainMenu" -> {"play_button_system", "level_select_button_system"}
       [] OTHER -> {"back_button_system", "arrow_button_system", "level_button_system"})

(* The systems that must have run before sys: the .chain() edges, and the  *)
(* sync point apply_deferred that follows the chained systems with         *)
(* Commands (store_save, on_level_completed, update_grounded,              *)
(* update_ducking).                                                        *)
Chained(sys) ==
    CASE sys = "store_save" -> {"checkpoint_system"}
      [] sys = "on_level_completed" -> {"level_complete_condition"}
      [] sys = "apply_deferred" ->
           {"store_save", "on_level_completed", "update_grounded", "update_ducking"}
      [] sys = "movement" ->
           {"keyboard_input", "update_grounded", "update_ducking", "apply_deferred"}
      [] sys = "checkpoint_load" -> {"store_save", "apply_deferred"}
      [] sys = "death_condition" -> {"on_level_completed", "apply_deferred"}
      [] sys = "setup_level_content" -> {"death_condition"}
      [] OTHER -> {}

(* Systems that touch disjoint state commute, so one order of them is      *)
(* explored: the controller's probes first, then the contact readers and   *)
(* the platform system, the pause system before the sync point, the death  *)
(* check before the reload key.  Left free: store_save against             *)
(* on_level_completed (SaveData), the pause system against                 *)
(* on_level_completed (NextState), checkpoint_load against                 *)
(* setup_level_content (the restart events), movement against              *)
(* setup_level_content (LinearVelocity).                                   *)
Commuting(sys) ==
    CASE sys = "update_grounded" -> {"keyboard_input"}
      [] sys = "update_ducking" -> {"update_grounded"}
      [] sys = "checkpoint_system" -> {"update_ducking"}
      [] sys = "play_button_system" -> {"update_ducking"}
      [] sys = "level_select_button_system" -> {"play_button_system"}
      [] sys = "back_button_system" -> {"update_ducking"}
      [] sys = "level_button_system" -> {"back_button_system"}
      [] sys = "arrow_button_system" -> {"level_button_system"}
      [] sys = "level_complete_condition" -> {"checkpoint_system"}
      [] sys = "moving_platform_system" -> {"level_complete_condition"}
      [] sys = "store_save" -> {"moving_platform_system"}
      [] sys = "on_level_completed" -> {"moving_platform_system"}
      [] sys = "pause_system" -> {"moving_platform_system", "update_ducking"}
      [] sys = "apply_deferred" -> {"pause_system"}
      [] sys = "checkpoint_load" -> {"death_condition"}
      [] sys = "resume_button_system" -> {"pause_system"}
      [] sys = "exit_to_main_menu_button_system" -> {"resume_button_system"}
      [] OTHER -> {}

Before(sys) == (Chained(sys) \cup Commuting(sys)) \cap Active(gameState)

Scheduled(sys) ==
    /\ pc = "update"
    /\ ~fatal
    /\ sys \in Active(gameState)
    /\ sys \notin done
    /\ Before(sys) \subseteq done
    /\ done' = done \cup {sys}
    /\ UNCHANGED <<pc, todo, env>>

Runs(sys) == Scheduled(sys) /\ UNCHANGED <<movementEvents, menuVars>>

Emit(type, n) == emitted' = [emitted EXCEPT ![type] = @ + n]

(* The sync point shared by the chains of Update. *)
apply_deferred ==
    /\ Runs("apply_deferred")
    /\ Flush
    /\ UNCHANGED <<stateVars, dynamicScenes, sceneSpawner, counterVars,
                   eventVars, fatal, applied, emitted>>

(* End of Update: the remaining commands are applied. *)
EndUpdate ==
    /\ pc = "update"
    /\ UNCHANGED <<env, movementEvents, menuVars>>
    /\ ~fatal
    /\ Active(gameState) \subseteq done
    /\ Flush
    /\ pc' = "spawn_scene"
    /\ done' = {}
    /\ UNCHANGED <<stateVars, dynamicScenes, sceneSpawner, counterVars,
                   eventVars, todo, fatal, applied, emitted>>


(***************************************************************************)
(* StateTransition: NextState is applied and the OnExit / OnEnter systems  *)
(* of the computed states InLevel and IsPaused run.                        *)
(***************************************************************************)
(* Mutation of ExitSystems: remove_save is not among the OnExit(InLevel)   *)
(* systems.                                                                *)
ExitSystemsKeepSave(old, new) ==
    (IF IsPaused(old) = "Paused" /\ IsPaused(new) # "Paused"
     THEN <<"end_pause">> ELSE <<>>)
    \o (IF InLevel(old) /\ ~InLevel(new)
        THEN <<"cleanup_level", "cleanup_level_content">> ELSE <<>>)

ExitSystems(old, new) ==
    (IF IsPaused(old) = "Paused" /\ IsPaused(new) # "Paused"
     THEN <<"end_pause">> ELSE <<>>)
    \o (IF InLevel(old) /\ ~InLevel(new)
        THEN <<"cleanup_level", "cleanup_level_content", "remove_save">> ELSE <<>>)

(* Mutation of EnterSystems: OnEnter(InLevel) also runs when the level     *)
(* index changes.                                                          *)
EnterSystemsOnIndexChange(old, new) ==
    (IF InLevel(new) /\ (~InLevel(old) \/ old.index # new.index)
     THEN <<"setup_level">> ELSE <<>>)
    \o (IF IsPaused(new) = "Paused" /\ IsPaused(old) # "Paused"
        THEN <<"begin_pause">> ELSE <<>>)

EnterSystems(old, new) ==
    (IF ~InLevel(old) /\ InLevel(new) THEN <<"setup_level">> ELSE <<>>)
    \o (IF IsPaused(new) = "Paused" /\ IsPaused(old) # "Paused"
        THEN <<"begin_pause">> ELSE <<>>)

(* LevelSelectMenuPlugin: OnExit(GameState::LevelSelect) and               *)
(* OnEnter(GameState::LevelSelect).                                         *)
MenuExitSystems(old, new) ==
    IF old.kind = "LevelSelect" /\ new.kind # "LevelSelect"
    THEN <<"cleanup_menu">> ELSE <<>>

MenuEnterSystems(old, new) ==
    IF new.kind = "LevelSelect" /\ old.kind # "LevelSelect"
    THEN <<"setup_menu">> ELSE <<>>

(* First: the frame begins; the event buffers may be swapped. *)
BeginFrame ==
    /\ pc = "first"
    /\ UNCHANGED <<env, movementEvents, menuVars>>
    /\ ~fatal
    /\ deathCounter < MaxDeaths
    /\ Cardinality(dynamicScenes) <= MaxScenes
    /\ \E update \in (IF Len(restartEvents) >= MaxBacklog THEN {TRUE} ELSE BOOLEAN) :
         /\ restartEvents' = IF update THEN EventUpdate(restartEvents) ELSE restartEvents
         /\ saveEvents' = IF update THEN EventUpdate(saveEvents) ELSE saveEvents
    /\ pc' = "transition"
    /\ UNCHANGED <<stateVars, worldVars, saveVars, counterVars, completeEvents,
                   deathEvents, commands, todo, done, fatal, applied, emitted>>

StateTransition ==
    /\ pc = "transition"
    /\ UNCHANGED <<env, movementEvents, menuVars>>
    /\ IF IsNone(nextState) \/ nextState = Some(gameState)
       THEN /\ pc' = "update"
            /\ UNCHANGED <<gameState, todo>>
       ELSE /\ gameState' = Unwrap(nextState)
            /\ todo' = ExitSystems(gameState, gameState')
                         \o MenuExitSystems(gameState, gameState')
                         \o MenuEnterSystems(gameState, gameState')
                         \o EnterSystems(gameState, gameState')
            /\ pc' = IF todo' = <<>> THEN "update" ELSE "handlers"
    /\ nextState' = None
    /\ UNCHANGED <<physicsPaused, worldVars, saveVars, counterVars, eventVars,
                   commands, done, fatal, applied, emitted>>

Handler(sys) ==
    /\ pc = "handlers"
    /\ todo # <<>>
    /\ Head(todo) = sys
    /\ todo' = Tail(todo)
    /\ pc' = IF todo' = <<>> THEN "update" ELSE "handlers"
    /\ UNCHANGED <<done, fatal, applied, commands, env, movementEvents>>

Handles(sys) == Handler(sys) /\ UNCHANGED menuVars

(* Mutation of setup_level: entering a level resets the death counter. *)
setup_level_resets_deaths ==
    /\ Handles("setup_level")
    /\ players' = Append(players, PlayerEntity)
    /\ levelStopwatch' = Some(0)
    /\ deathCounter' = 0
    /\ restartEvents' = Append(restartEvents, Fresh(FullReset(gameState.index)))
    /\ Emit("restart", 1)
    /\ UNCHANGED <<stateVars, levelRoots, spikes, checkpoints, saveVars,
                   saveEvents, completeEvents, deathEvents>>

setup_level ==
    /\ Handles("setup_level")
    /\ players' = Append(players, PlayerEntity)
    /\ levelStopwatch' = Some(0)
    /\ restartEvents' = Append(restartEvents, Fresh(FullReset(gameState.index)))
    /\ Emit("restart", 1)
    /\ UNCHANGED <<stateVars, levelRoots, spikes, checkpoints, saveVars, deathCounter,
                   saveEvents, completeEvents, deathEvents>>

cleanup_level ==
    /\ Handles("cleanup_level")
    /\ IF Len(players) = 1
       THEN /\ players' = <<>>
            /\ levelStopwatch' = None
       ELSE UNCHANGED <<players, levelStopwatch>>
    /\ UNCHANGED <<stateVars, levelRoots, spikes, checkpoints, saveVars, deathCounter,
                   eventVars, emitted>>

(* Mutation of cleanup_level_content: the level root is not despawned. *)
cleanup_level_content_keeps_root ==
    /\ Handles("cleanup_level_content")
    /\ spikes' = <<>>
    /\ checkpoints' = <<>>
    /\ UNCHANGED <<stateVars, players, levelRoots, saveVars, counterVars, eventVars, emitted>>

cleanup_level_content ==
    /\ Handles("cleanup_level_content")
    /\ levelRoots' = IF Len(levelRoots) = 1 THEN <<>> ELSE levelRoots
    /\ spikes' = <<>>
    /\ checkpoints' = <<>>
    /\ UNCHANGED <<stateVars, players, saveVars, counterVars, eventVars, emitted>>

remove_save ==
    /\ Handles("remove_save")
    /\ IF IsSome(saveData)
       THEN /\ dynamicScenes' = AssetsRemove(dynamicScenes, Unwrap(saveData).scene)
            /\ saveData' = None
       ELSE UNCHANGED <<saveData, dynamicScenes>>
    /\ UNCHANGED <<stateVars, worldVars, sceneSpawner, counterVars, eventVars, emitted>>

begin_pause ==
    /\ Handles("begin_pause")
    /\ physicsPaused' = TRUE
    /\ UNCHANGED <<gameState, nextState, worldVars, saveVars, counterVars, eventVars,
                   emitted>>

end_pause ==
    /\ Handles("end_pause")
    /\ physicsPaused' = FALSE
    /\ UNCHANGED <<gameState, nextState, worldVars, saveVars, counterVars, eventVars,
                   emitted>>

(***************************************************************************)
(* Systems of Update.                                                      *)
(***************************************************************************)
(* At most one menu input arrives per frame: a button is released only if  *)
(* no other input of the frame has requested a state yet.                  *)
OneInput == IF IsNone(nextState) THEN BOOLEAN ELSE {FALSE}

pause_system ==
    /\ Runs("pause_system")
    /\ \E escape \in BOOLEAN :
         nextState' = IF escape
                      THEN Some(Level(gameState.index, ~gameState.paused))
                      ELSE nextState
    /\ UNCHANGED <<gameState, physicsPaused, worldVars, saveVars, counterVars, eventVars,
                   commands, fatal, applied, emitted>>

resume_button_system ==
    /\ Runs("resume_button_system")
    /\ \E released \in OneInput :
         nextState' = IF released THEN Some(Level(gameState.index, FALSE)) ELSE nextState
    /\ UNCHANGED <<gameState, physicsPaused, worldVars, saveVars, counterVars, eventVars,
                   commands, fatal, applied, emitted>>

exit_to_main_menu_button_system ==
    /\ Runs("exit_to_main_menu_button_system")
    /\ \E released \in OneInput :
         nextState' = IF released THEN Some(MainMenu) ELSE nextState
    /\ UNCHANGED <<gameState, physicsPaused, worldVars, saveVars, counterVars, eventVars,
                   commands, fatal, applied, emitted>>

play_button_system ==
    /\ Runs("play_button_system")
    /\ \E released \in BOOLEAN :
         nextState' = IF released THEN Some(GameStateLevel(0)) ELSE nextState
    /\ UNCHANGED <<gameState, physicsPaused, worldVars, saveVars, counterVars, eventVars,
                   commands, fatal, applied, emitted>>

level_select_button_system ==
    /\ Runs("level_select_button_system")
    /\ \E released \in OneInput :
         nextState' = IF released THEN Some(LevelSelect) ELSE nextState
    /\ UNCHANGED <<gameState, physicsPaused, worldVars, saveVars, counterVars, eventVars,
                   commands, fatal, applied, emitted>>

back_button_system ==
    /\ Runs("back_button_system")
    /\ \E released \in BOOLEAN :
         nextState' = IF released THEN Some(MainMenu) ELSE nextState
    /\ UNCHANGED <<gameState, physicsPaused, worldVars, saveVars, counterVars, eventVars,
                   commands, fatal, applied, emitted>>

(* LevelGenerator::level_count: LevelCount in the source.  The level select *)
(* is also run with other level counts; generate keeps the arms it has.    *)
level_count == env.levels

(* u16 *)
U16 == 65536

(* The 3 x 3 grid of setup_menu: column i, row j holds slot j * 3 + i. *)
Slots == {j * 3 + i : i \in 0..2, j \in 0..2}

LevelButton(slot, idx) == [slot |-> slot, idx |-> idx]

(* setup_menu: a button with the index of its slot in every slot below the *)
(* level count, whatever the page is.                                      *)
setup_menu ==
    /\ Handler("setup_menu")
    /\ levelButtons' = {LevelButton(slot, slot) : slot \in {s \in Slots : s < level_count}}
    /\ UNCHANGED <<levelSelectPage, stateVars, worldVars, saveVars, counterVars,
                   eventVars, emitted>>

cleanup_menu ==
    /\ Handler("cleanup_menu")
    /\ levelButtons' = {}
    /\ UNCHANGED <<levelSelectPage, stateVars, worldVars, saveVars, counterVars,
                   eventVars, emitted>>

(* button_interaction::<ArrowButton>: the arrow released in this frame, if  *)
(* any.                                                                    *)
ArrowReleased ==
    {None} \cup (IF IsNone(nextState) THEN {Some("Forward"), Some("Backward")} ELSE {})

(* arrow_button_system: the page delta of a released arrow, 0 where the     *)
(* system returns early.                                                   *)
PageDelta(page, arrow) ==
    IF arrow = "Forward"
    THEN (IF (page + 1) * 9 >= level_count THEN 0 ELSE 1)
    ELSE (IF page = 0 THEN 0 ELSE -1)

(* button.0 += 9 and button.0 -= 9 on u16, wrapped. *)
ShiftButtons(buttons, page_delta) ==
    {LevelButton(b.slot, (b.idx + 9 * page_delta + U16) % U16) : b \in buttons}

(* The u16 arithmetic leaves 0..65535: a panic in a build with overflow     *)
(* checks, the wrapped value in a build without.                           *)
ShiftOverflows(buttons, page_delta) ==
    \E b \in buttons : b.idx + 9 * page_delta \notin 0..(U16 - 1)

arrow_button_system ==
    /\ Scheduled("arrow_button_system")
    /\ UNCHANGED movementEvents
    /\ UNCHANGED <<stateVars, worldVars, saveVars, counterVars, eventVars, commands,
                   applied, emitted>>
    /\ \E released \in ArrowReleased :
         IF IsNone(released)
         THEN UNCHANGED <<levelSelectPage, levelButtons, fatal>>
         ELSE LET page_delta == PageDelta(levelSelectPage, Unwrap(released))
              IN /\ levelSelectPage' = levelSelectPage + page_delta
                 /\ \E checks \in (IF page_delta # 0 /\ ShiftOverflows(levelButtons, page_delta)
                                   THEN BOOLEAN ELSE {FALSE}) :
                      /\ fatal' = checks
                      /\ levelButtons' = IF checks \/ page_delta = 0 THEN levelButtons
                                         ELSE ShiftButtons(levelButtons, page_delta)

(* button_interaction::<LevelButton>: the level button released in this    *)
(* frame, if any.                                                          *)
Released ==
    {None} \cup (IF IsNone(nextState)
                 THEN {Some(button) : button \in {b \in levelButtons : b.slot \in env.buttons}}
                 ELSE {})

level_button_system ==
    /\ Runs("level_button_system")
    /\ \E released \in Released :
         nextState' = IF IsSome(released)
                      THEN Some(GameStateLevel(Unwrap(released).idx))
                      ELSE nextState
    /\ UNCHANGED <<gameState, physicsPaused, worldVars, saveVars, counterVars, eventVars,
                   commands, fatal, applied, emitted>>


(***************************************************************************)
(* character_controller.rs                                                 *)
(***************************************************************************)
Move(direction) == [action |-> "Move", direction |-> direction]
Jump == [action |-> "Jump"]

Keys == IF env.controller THEN BOOLEAN ELSE {FALSE}

AsInt(b) == IF b THEN 1 ELSE 0

(* Mutation of KeyboardEvents: no Move event is sent while no direction is *)
(* in effect.                                                              *)
KeyboardEventsWithoutIdleMove(left, right, jump) ==
    LET horizontal == AsInt(right) - AsInt(left)
    IN (IF horizontal # 0 THEN <<Move(horizontal)>> ELSE <<>>)
       \o (IF jump THEN <<Jump>> ELSE <<>>)

(* keyboard_input: the events one run sends, given which of the left,      *)
(* right and jump keys are held.                                           *)
KeyboardEvents(left, right, jump) ==
    LET horizontal == AsInt(right) - AsInt(left)
    IN <<Move(horizontal)>> \o (IF jump THEN <<Jump>> ELSE <<>>)

keyboard_input ==
    /\ Scheduled("keyboard_input")
    /\ UNCHANGED menuVars
    /\ \E left \in Keys, right \in Keys, jump \in Keys :
         movementEvents' = movementEvents \o KeyboardEvents(left, right, jump)
    /\ UNCHANGED <<stateVars, worldVars, saveVars, counterVars, eventVars, commands,
                   fatal, applied, emitted>>

(* Mutation of IsGrounded: any hit grounds the controller. *)
IsGroundedOnAnyHit(hits, max_slope_angle) == hits # {}

(* The closure of update_grounded: does some hit pass the slope filter?    *)
(* A hit is the angle, in degrees, between its normal and world-up (the    *)
(* rotation is locked).                                                    *)
IsGrounded(hits, max_slope_angle) ==
    \E hit \in hits :
        IF IsSome(max_slope_angle) THEN Abs(hit) <= Unwrap(max_slope_angle) ELSE TRUE

update_grounded ==
    /\ Runs("update_grounded")
    /\ commands' =
         commands \o
         [p \in 1..Len(players) |->
            IF IsGrounded(players[p].hits, players[p].max_slope_angle)
            THEN CmdInsert(p, "Grounded")
            ELSE CmdRemove(p, "Grounded")]
    /\ UNCHANGED <<stateVars, worldVars, saveVars, counterVars, eventVars, fatal,
                   applied, emitted>>

(* collider.aabb(..).size().y *)
Height(player) == (PLAYER_SIZE_Y * player.collider_scale_y) \div 2

(* Mutation of Duck: standing up raises the origin by half of the full     *)
(* standing height.                                                        *)
DuckStandHalfOfFull(player, p, pressed, blocked) ==
    IF pressed
    THEN IF ~player.ducking
         THEN [player |-> [player EXCEPT !.scale_y = 1,
                                         !.pos[2] = @ - Height(player) \div 4],
               cmds |-> <<CmdInsert(p, "Ducking")>>]
         ELSE [player |-> player, cmds |-> <<>>]
    ELSE IF player.ducking /\ ~blocked
         THEN [player |-> [player EXCEPT !.scale_y = 2,
                                         !.pos[2] = @ + PLAYER_SIZE_Y \div 2],
               cmds |-> <<CmdRemove(p, "Ducking")>>]
         ELSE [player |-> player, cmds |-> <<>>]

(* Mutation of Duck: standing up raises the origin by a quarter of the     *)
(* ducked height.                                                           *)
DuckStandQuarter(player, p, pressed, blocked) ==
    IF pressed
    THEN IF ~player.ducking
         THEN [player |-> [player EXCEPT !.scale_y = 1,
                                         !.pos[2] = @ - Height(player) \div 4],
               cmds |-> <<CmdInsert(p, "Ducking")>>]
         ELSE [player |-> player, cmds |-> <<>>]
    ELSE IF player.ducking /\ ~blocked
         THEN [player |-> [player EXCEPT !.scale_y = 2,
                                         !.pos[2] = @ + Height(player) \div 4],
               cmds |-> <<CmdRemove(p, "Ducking")>>]
         ELSE [player |-> player, cmds |-> <<>>]

(* Mutation of Duck: the controller stands up without the headroom cast. *)
DuckStandBlocked(player, p, pressed, blocked) ==
    IF pressed
    THEN IF ~player.ducking
         THEN [player |-> [player EXCEPT !.scale_y = 1,
                                         !.pos[2] = @ - Height(player) \div 4],
               cmds |-> <<CmdInsert(p, "Ducking")>>]
         ELSE [player |-> player, cmds |-> <<>>]
    ELSE IF player.ducking
         THEN [player |-> [player EXCEPT !.scale_y = 2,
                                         !.pos[2] = @ + Height(player) \div 2],
               cmds |-> <<CmdRemove(p, "Ducking")>>]
         ELSE [player |-> player, cmds |-> <<>>]

(* update_ducking for one controller: its Transform after the system and   *)
(* the command it queues.                                                  *)
Duck(player, p, pressed, blocked) ==
    IF pressed
    THEN IF ~player.ducking
         THEN [player |-> [player EXCEPT !.scale_y = 1,
                                         !.pos[2] = @ - Height(player) \div 4],
               cmds |-> <<CmdInsert(p, "Ducking")>>]
         ELSE [player |-> player, cmds |-> <<>>]
    ELSE IF player.ducking /\ ~blocked
         THEN [player |-> [player EXCEPT !.scale_y = 2,
                                         !.pos[2] = @ + Height(player) \div 2],
               cmds |-> <<CmdRemove(p, "Ducking")>>]
         ELSE [player |-> player, cmds |-> <<>>]

update_ducking ==
    /\ Runs("update_ducking")
    /\ \E pressed \in Keys, blocked \in Keys :
         /\ players' = [p \in 1..Len(players) |->
                          Duck(players[p], p, pressed, blocked).player]
         /\ commands' = IF Len(players) = 0 THEN commands
                        ELSE commands \o Duck(players[1], 1, pressed, blocked).cmds
    /\ UNCHANGED <<stateVars, levelRoots, spikes, checkpoints, saveVars, counterVars,
                   eventVars, fatal, applied, emitted>>

(* Mutation of ApplyMovement: Move adds to the horizontal velocity. *)
ApplyMovementAccumulate(player, event) ==
    IF event.action = "Move"
    THEN [player EXCEPT
            !.vel[1] = @ + (event.direction * player.movement_speed * env.delta) \div 1000]
    ELSE IF player.grounded /\ ~player.ducking
         THEN [player EXCEPT !.vel[2] = player.jump_impulse]
         ELSE player

(* Mutation of ApplyMovement: Jump is obeyed whatever the flags are. *)
ApplyMovementAlwaysJump(player, event) ==
    IF event.action = "Move"
    THEN [player EXCEPT
            !.vel[1] = (event.direction * player.movement_speed * env.delta) \div 1000]
    ELSE [player EXCEPT !.vel[2] = player.jump_impulse]

(* movement: one event applied to one controller. *)
ApplyMovement(player, event) ==
    IF event.action = "Move"
    THEN [player EXCEPT
            !.vel[1] = (event.direction * player.movement_speed * env.delta) \div 1000]
    ELSE IF player.grounded /\ ~player.ducking
         THEN [player EXCEPT !.vel[2] = player.jump_impulse]
         ELSE player

RECURSIVE ApplyMovements(_, _, _)
ApplyMovements(player, events, i) ==
    IF i > Len(events) THEN player
    ELSE ApplyMovements(ApplyMovement(player, events[i]), events, i + 1)

(* Against setup_level_content, movement runs before the death check or    *)
(* after the regeneration.                                                 *)
movement ==
    /\ Scheduled("movement")
    /\ UNCHANGED menuVars
    /\ "death_condition" \notin done \/ "setup_level_content" \in done
    /\ players' = [p \in 1..Len(players) |->
                     ApplyMovements(players[p], movementEvents, 1)]
    /\ movementEvents' = <<>>
    /\ UNCHANGED <<stateVars, levelRoots, spikes, checkpoints, saveVars, counterVars,
                   eventVars, commands, fatal, applied, emitted>>

(* Mutation of PlatformStep: the platform moves only while something        *)
(* touches it.                                                             *)
PlatformStepWhileTouched(e, dt) ==
    IF e.kind # "slider" THEN e
    ELSE IF ~e.contact THEN e
    ELSE LET movement_sign == IF e.moving_backward THEN -1 ELSE 1
             t1 == Clamp(e.t + ((e.delta_t_per_second * dt) \div 1000) * movement_sign,
                         0, TScale)
         IN [e EXCEPT !.active = TRUE,
                      !.t = t1,
                      !.pos = Lerp(e.a, e.b, t1),
                      !.moving_backward = IF t1 >= TScale THEN TRUE
                                          ELSE IF t1 <= 0 THEN FALSE
                                          ELSE @]

(* Mutation of PlatformStep: the direction flips one frame early, when the *)
(* next step would pass the end.                                           *)
PlatformStepEarlyFlip(e, dt) ==
    IF e.kind # "slider" THEN e
    ELSE IF ~(e.active \/ e.contact) THEN e
    ELSE LET movement_sign == IF e.moving_backward THEN -1 ELSE 1
             step == (e.delta_t_per_second * dt) \div 1000
             t1 == Clamp(e.t + step * movement_sign, 0, TScale)
         IN [e EXCEPT !.active = TRUE,
                      !.t = t1,
                      !.pos = Lerp(e.a, e.b, t1),
                      !.moving_backward = IF t1 + step >= TScale THEN TRUE
                                          ELSE IF t1 - step <= 0 THEN FALSE
                                          ELSE @]

(* moving_platform_system, one platform: its state after the frame. *)
PlatformStep(e, dt) ==
    IF e.kind # "slider" THEN e
    ELSE IF ~(e.active \/ e.contact) THEN e
    ELSE LET movement_sign == IF e.moving_backward THEN -1 ELSE 1
             t1 == Clamp(e.t + ((e.delta_t_per_second * dt) \div 1000) * movement_sign,
                         0, TScale)
         IN [e EXCEPT !.active = TRUE,
                      !.t = t1,
                      !.pos = Lerp(e.a, e.b, t1),
                      !.moving_backward = IF t1 >= TScale THEN TRUE
                                          ELSE IF t1 <= 0 THEN FALSE
                                          ELSE @]

(* Mutation of PlatformNudge: the shift uses the direction the platform    *)
(* has after its own step.                                                 *)
PlatformNudgeAfterFlip(e, dt) ==
    IF e.kind = "slider" /\ e.contact
    THEN ((e.speed * dt) \div 1000)
         * (IF PlatformStep(e, dt).moving_backward THEN -1 ELSE 1)
    ELSE 0

(* moving_platform_system, one platform: the shift it gives a Dynamic body *)
(* of its contact set.                                                      *)
PlatformNudge(e, dt) ==
    IF e.kind = "slider" /\ e.contact
    THEN ((e.speed * dt) \div 1000) * (IF e.moving_backward THEN -1 ELSE 1)
    ELSE 0

RECURSIVE SumNudges(_, _, _)
SumNudges(children, i, dt) ==
    IF i > Len(children) THEN 0
    ELSE PlatformNudge(children[i], dt) + SumNudges(children, i + 1, dt)

moving_platform_system ==
    /\ Runs("moving_platform_system")
    /\ levelRoots' =
         [r \in 1..Len(levelRoots) |->
            [children |-> [i \in 1..Len(levelRoots[r].children) |->
                             PlatformStep(levelRoots[r].children[i], env.delta)]]]
    /\ players' =
         [p \in 1..Len(players) |->
            [players[p] EXCEPT !.pos[1] = @ + SumNudges(AllChildren, 1, env.delta)]]
    /\ UNCHANGED <<stateVars, spikes, checkpoints, saveVars, counterVars, eventVars,
                   commands, fatal, applied, emitted>>

(* The respawn position a checkpoint's save request carries. *)
SavePosition(pos) == <<pos[1], pos[2] + PLAYER_SIZE_Y>>

(* Mutation of CheckpointLoop: the loop leaves the active flags alone. *)
RECURSIVE CheckpointLoopKeepActive(_, _, _, _)
CheckpointLoopKeepActive(cps, i, active_checkpoint, events) ==
    IF i > Len(cps)
    THEN [checkpoints |-> cps, active_checkpoint |-> active_checkpoint, events |-> events]
    ELSE LET is_active == cps[i].active
             a1 == IF is_active /\ IsNone(active_checkpoint) THEN Some(i)
                   ELSE active_checkpoint
             a2 == IF cps[i].contact THEN Some(i) ELSE a1
             ev == IF cps[i].contact /\ ~is_active
                   THEN Append(events, Fresh([position |-> SavePosition(cps[i].pos)]))
                   ELSE events
         IN CheckpointLoopKeepActive(cps, i + 1, a2, ev)

(* The loop of checkpoint_system over the checkpoints, in query order. *)
RECURSIVE CheckpointLoop(_, _, _, _)
CheckpointLoop(cps, i, active_checkpoint, events) ==
    IF i > Len(cps)
    THEN [checkpoints |-> cps, active_checkpoint |-> active_checkpoint, events |-> events]
    ELSE LET is_active == cps[i].active
             a1 == IF is_active /\ IsNone(active_checkpoint) THEN Some(i)
                   ELSE active_checkpoint
             a2 == IF cps[i].contact THEN Some(i) ELSE a1
             ev == IF cps[i].contact /\ ~is_active
                   THEN Append(events, Fresh([position |-> SavePosition(cps[i].pos)]))
                   ELSE events
         IN CheckpointLoop([cps EXCEPT ![i].active = FALSE], i + 1, a2, ev)

checkpoint_system ==
    /\ Runs("checkpoint_system")
    /\ IF Len(players) # 1
       THEN UNCHANGED <<checkpoints, saveEvents, emitted>>
       ELSE LET r == CheckpointLoop(checkpoints, 1, None, <<>>)
            IN /\ checkpoints' =
                    IF IsSome(r.active_checkpoint)
                    THEN [r.checkpoints EXCEPT ![Unwrap(r.active_checkpoint)].active = TRUE]
                    ELSE r.checkpoints
               /\ saveEvents' = saveEvents \o r.events
               /\ Emit("save", Len(r.events))
    /\ UNCHANGED <<stateVars, players, levelRoots, spikes, saveVars, counterVars,
                   restartEvents, completeEvents, deathEvents, commands, fatal, applied>>

(* create_save: the save the first unread request produces, if any. *)
create_save ==
    IF saveEvents = <<>> THEN None
    ELSE IF Len(levelRoots) # 1 THEN None
    ELSE IF levelRoots[1].children = <<>> THEN None
    ELSE Some([position |-> Head(saveEvents).ev.position,
               scene |-> Snapshot(levelRoots[1].children)])

(* create_save.pipe(store_save) *)
store_save ==
    /\ Runs("store_save")
    /\ saveEvents' = IF saveEvents = <<>> THEN saveEvents ELSE Tail(saveEvents)
    /\ LET created_save == create_save
       IN IF IsNone(created_save)
          THEN UNCHANGED <<saveData, dynamicScenes, commands>>
          ELSE LET new == Unwrap(created_save)
               IN IF IsSome(saveData)
                  THEN LET removed == AssetsRemove(dynamicScenes, Unwrap(saveData).scene)
                           id == NewHandle(removed, None)
                       IN /\ dynamicScenes' = removed \cup {[id |-> id, scene |-> new.scene]}
                          /\ saveData' = Some([scene |-> id, position |-> new.position])
                          /\ UNCHANGED commands
                  ELSE LET id == NewHandle(dynamicScenes, None)
                       IN /\ dynamicScenes' =
                               dynamicScenes \cup {[id |-> id, scene |-> new.scene]}
                          /\ commands' = Append(commands, CmdInsertSave(id, new.position))
                          /\ UNCHANGED saveData
    /\ UNCHANGED <<stateVars, worldVars, sceneSpawner, counterVars, restartEvents,
                   completeEvents, deathEvents, fatal, applied, emitted>>

checkpoint_load ==
    /\ Runs("checkpoint_load")
    /\ \E key_l \in (IF env.reload THEN BOOLEAN ELSE {FALSE}) :
         IF key_l
         THEN /\ restartEvents' = Append(restartEvents, Fresh(RestoreLastSave))
              /\ Emit("restart", 1)
         ELSE UNCHANGED <<restartEvents, emitted>>
    /\ UNCHANGED <<stateVars, worldVars, saveVars, counterVars, saveEvents,
                   completeEvents, deathEvents, commands, fatal, applied>>

level_complete_condition ==
    /\ Runs("level_complete_condition")
    /\ IF /\ Len(players) = 1
          /\ \E i \in 1..Len(AllChildren) :
               AllChildren[i].kind = "ending" /\ AllChildren[i].contact
       THEN /\ completeEvents' = completeEvents + 1
            /\ Emit("complete", 1)
       ELSE UNCHANGED <<completeEvents, emitted>>
    /\ UNCHANGED <<stateVars, worldVars, saveVars, counterVars, restartEvents,
                   saveEvents, deathEvents, commands, fatal, applied>>

on_level_completed ==
    /\ Runs("on_level_completed")
    /\ completeEvents' = 0
    /\ IF completeEvents = 0
       THEN UNCHANGED <<nextState, restartEvents, counterVars, dynamicScenes, commands,
                        emitted>>
       ELSE /\ nextState' = Some(GameStateLevel(gameState.index + 1))
            /\ restartEvents' = Append(restartEvents, Fresh(FullReset(gameState.index + 1)))
            /\ Emit("restart", 1)
            /\ levelStopwatch' = Some(0)
            /\ deathCounter' = 0
            /\ IF IsSome(saveData)
               THEN /\ dynamicScenes' = AssetsRemove(dynamicScenes, Unwrap(saveData).scene)
                    /\ commands' = Append(commands, CmdRemoveSave)
               ELSE UNCHANGED <<dynamicScenes, commands>>
    /\ UNCHANGED <<gameState, physicsPaused, worldVars, saveData, sceneSpawner,
                   saveEvents, deathEvents, fatal, applied>>

(* Mutation of FirstTouchedSpike: the first spike of the query is taken    *)
(* whenever some spike is touched.                                         *)
FirstSpikeIfAnyTouched ==
    IF \E i \in 1..Len(spikes) : spikes[i].contact THEN 1 ELSE 0

(* The first spike, in query order, whose contact set holds the player. *)
FirstTouchedSpike ==
    LET touched == {i \in 1..Len(spikes) : spikes[i].contact}
    IN IF touched = {} THEN 0 ELSE CHOOSE i \in touched : \A j \in touched : i <= j

(* Mutation of death_condition: no return after the first touched spike,   *)
(* so the boundary check also runs.                                        *)
death_condition_without_return ==
    /\ Runs("death_condition")
    /\ IF Len(players) # 1
       THEN UNCHANGED <<spikes, deathEvents, restartEvents, emitted>>
       ELSE LET n == (IF FirstTouchedSpike # 0 THEN 1 ELSE 0)
                     + (IF players[1].pos[2] <= BOTTOM_WORLD_BOUNDARY THEN 1 ELSE 0)
            IN /\ spikes' = IF FirstTouchedSpike # 0
                            THEN [spikes EXCEPT ![FirstTouchedSpike].visible = TRUE]
                            ELSE spikes
               /\ deathEvents' = deathEvents + n
               /\ restartEvents' =
                      restartEvents \o [k \in 1..n |-> Fresh(RestoreLastSave)]
               /\ emitted' = [emitted EXCEPT !.death = @ + n, !.restart = @ + n,
                                             !.since_step = @ + n]
    /\ UNCHANGED <<stateVars, players, levelRoots, checkpoints, saveVars, counterVars,
                   saveEvents, completeEvents, commands, fatal, applied>>

death_condition ==
    /\ Runs("death_condition")
    /\ IF Len(players) # 1
       THEN UNCHANGED <<spikes, deathEvents, restartEvents, emitted>>
       ELSE IF FirstTouchedSpike # 0
       THEN /\ spikes' = [spikes EXCEPT ![FirstTouchedSpike].visible = TRUE]
            /\ deathEvents' = deathEvents + 1
            /\ restartEvents' = Append(restartEvents, Fresh(RestoreLastSave))
            /\ emitted' = [emitted EXCEPT !.death = @ + 1, !.restart = @ + 1,
                                          !.since_step = @ + 1]
       ELSE IF players[1].pos[2] <= BOTTOM_WORLD_BOUNDARY
       THEN /\ deathEvents' = deathEvents + 1
            /\ restartEvents' = Append(restartEvents, Fresh(RestoreLastSave))
            /\ emitted' = [emitted EXCEPT !.death = @ + 1, !.restart = @ + 1,
                                          !.since_step = @ + 1]
            /\ UNCHANGED spikes
       ELSE UNCHANGED <<spikes, deathEvents, restartEvents, emitted>>
    /\ UNCHANGED <<stateVars, players, levelRoots, checkpoints, saveVars, counterVars,
                   saveEvents, completeEvents, commands, fatal, applied>>


EmptyLevel == [children |-> <<>>, spikes |-> <<>>, checkpoints |-> <<>>]

(* Mutation of DespawnRootCommands: the old level root is kept. *)
KeepRootCommands == <<>>

(* setup_level_content: the commands that replace the level content. *)
DespawnRootCommands == IF Len(levelRoots) = 1 THEN <<CmdDespawnRoot>> ELSE <<>>

(* setup_level_content panics: Query::single_mut without exactly one       *)
(* player, or the generator on an unknown index.                            *)
RestartPanicsWith(player, ev) ==
    \/ Len(player) # 1
    \/ ev.type = "FullReset" /\ ~ValidIndex(ev.index)
    \/ ev.type = "RestoreLastSave" /\ IsNone(saveData) /\ ~ValidIndex(gameState.index)

RestartPanics(ev) == RestartPanicsWith(players, ev)

setup_level_content ==
    /\ pc = "update"
    /\ UNCHANGED <<env, movementEvents, menuVars>>
    /\ ~fatal
    /\ "setup_level_content" \in Active(gameState)
    /\ "setup_level_content" \notin done
    /\ Before("setup_level_content") \subseteq done
    /\ done' = done \cup {"setup_level_content"}
    /\ UNCHANGED <<pc, todo>>
    /\ IF restartEvents = <<>>
       THEN UNCHANGED <<restartEvents, players, sceneSpawner, commands, fatal, applied>>
       ELSE LET ev == Head(restartEvents).ev
            IN /\ restartEvents' = Tail(restartEvents)
               /\ applied' = Some(ev)
               /\ IF RestartPanics(ev)
                  THEN /\ fatal' = TRUE
                       /\ UNCHANGED <<players, sceneSpawner, commands>>
                  ELSE /\ fatal' = fatal
                       /\ IF ev.type = "RestoreLastSave"
                          THEN IF IsSome(saveData)
                               THEN /\ players' = <<[players[1] EXCEPT
                                                      !.pos = Unwrap(saveData).position,
                                                      !.vel = Zero]>>
                                    /\ sceneSpawner' =
                                         Append(sceneSpawner, Unwrap(saveData).scene)
                                    /\ commands' = commands \o DespawnRootCommands
                                                   \o <<CmdSpawnLevel(EmptyLevel)>>
                               ELSE /\ players' = <<[players[1] EXCEPT
                                                      !.pos = Origin, !.vel = Zero]>>
                                    /\ commands' =
                                         commands \o DespawnRootCommands
                                         \o <<CmdSpawnLevel(GenerateEphemeral(gameState.index))>>
                                    /\ UNCHANGED sceneSpawner
                          ELSE /\ players' = <<[players[1] EXCEPT
                                                 !.pos = Origin, !.vel = Zero]>>
                               /\ commands' =
                                    commands \o DespawnRootCommands
                                    \o <<CmdDespawnPermanent(Len(spikes), Len(checkpoints)),
                                         CmdSpawnLevel(GenerateFull(ev.index))>>
                               /\ UNCHANGED sceneSpawner
    /\ UNCHANGED <<stateVars, levelRoots, spikes, checkpoints, saveData, dynamicScenes,
                   counterVars, saveEvents, completeEvents, deathEvents, emitted>>

(***************************************************************************)
(* SpawnScene: the scene spawner instantiates the queued snapshots as      *)
(* children of the level root spawned for them; a snapshot whose asset is  *)
(* gone stays queued.                                                      *)
(***************************************************************************)
SpawnScene ==
    /\ pc = "spawn_scene"
    /\ UNCHANGED <<env, movementEvents, menuVars>>
    /\ IF sceneSpawner # <<>> /\ SceneExists(Head(sceneSpawner)) /\ levelRoots # <<>>
       THEN /\ levelRoots' =
                 [levelRoots EXCEPT ![Len(levelRoots)].children =
                                       @ \o SceneOf(Head(sceneSpawner))]
            /\ sceneSpawner' = Tail(sceneSpawner)
       ELSE UNCHANGED <<levelRoots, sceneSpawner>>
    /\ pc' = "post"
    /\ UNCHANGED <<stateVars, players, spikes, checkpoints, saveData, dynamicScenes,
                   counterVars, eventVars, commands, todo, done, fatal, applied, emitted>>

(***************************************************************************)
(* PostUpdate.                                                             *)
(***************************************************************************)
update_death_counter ==
    /\ pc = "post"
    /\ UNCHANGED <<env, movementEvents, menuVars>>
    /\ IF IsPaused(gameState) = "Unpaused"
       THEN /\ deathCounter' = deathCounter + deathEvents
            /\ deathEvents' = 0
       ELSE UNCHANGED <<deathCounter, deathEvents>>
    /\ pc' = "hud"
    /\ UNCHANGED <<stateVars, worldVars, saveVars, levelStopwatch, restartEvents,
                   saveEvents, completeEvents, commands, todo, done, fatal, applied,
                   emitted>>

(* Stopwatch::tick by the delta of Time<Physics>; the clock delivers no    *)
(* more time once MaxTime has elapsed.                                      *)
StopwatchTick(elapsed) == IF elapsed < MaxTime THEN elapsed + 1 ELSE elapsed

update_hud ==
    /\ pc = "hud"
    /\ UNCHANGED <<env, movementEvents, menuVars>>
    /\ IF IsPaused(gameState) = "Unpaused" /\ IsSome(levelStopwatch)
       THEN levelStopwatch' = Some(StopwatchTick(Unwrap(levelStopwatch)))
       ELSE UNCHANGED levelStopwatch
    /\ pc' = "physics"
    /\ UNCHANGED <<stateVars, worldVars, saveVars, deathCounter, eventVars, commands,
                   todo, done, fatal, applied, emitted>>

(***************************************************************************)
(* The physics collaborator (avian2d, in PostUpdate).  A frame may pass    *)
(* without a physics step; a step integrates the player and rebuilds the   *)
(* contact sets.  What the player touches is an input of the model.        *)
(***************************************************************************)
(* The angles, in degrees, a ground hit's normal may make with world-up. *)
HitAngles == {0, 45}

(* Time::delta of a frame, in milliseconds: below and above the physics    *)
(* timestep.                                                               *)
ShortFrame == 10
LongFrame == 250

Away == <<120, 0>>
Fallen == <<120, BOTTOM_WORLD_BOUNDARY>>
Falling == <<0, -20>>

Min(a, b) == IF a < b THEN a ELSE b

Touchables ==
    {<<"spike", i>> : i \in {j \in 1..Min(Len(spikes), env.reach) :
                                "spike" \in env.kinds}}
    \cup {<<"checkpoint", i>> : i \in {j \in 1..Min(Len(checkpoints), env.reach) :
                                       "checkpoint" \in env.kinds}}
    \cup {<<"child", i>> : i \in {j \in 1..Len(AllChildren) :
                                  AllChildren[j].kind \in env.kinds}}
    \cup {<<"fall", 0>> : i \in {j \in {0} : "fall" \in env.kinds}}

EndFrame(stepped) ==
    /\ pc' = "first"
    /\ applied' = None
    /\ emitted' = [NoEmitted EXCEPT
                     !.since_step = IF stepped THEN 0 ELSE emitted.since_step]

(* PostUpdate, every frame: the collider's scale follows the Transform. *)
SyncCollider(player) == [player EXCEPT !.collider_scale_y = player.scale_y]

PhysicsStep(touched, hits) ==
    /\ players' = [p \in 1..Len(players) |->
                     [SyncCollider(players[p]) EXCEPT
                        !.pos = IF <<"fall", 0>> \in touched THEN Fallen ELSE Away,
                        !.vel = <<players[p].vel[1], Falling[2]>>,
                        !.hits = hits]]
    /\ spikes' = [i \in 1..Len(spikes) |->
                    [spikes[i] EXCEPT !.contact = <<"spike", i>> \in touched]]
    /\ checkpoints' = [i \in 1..Len(checkpoints) |->
                         [checkpoints[i] EXCEPT !.contact = <<"checkpoint", i>> \in touched]]
    /\ levelRoots' =
         IF levelRoots = <<>> THEN levelRoots
         ELSE [levelRoots EXCEPT ![1].children =
                 [i \in 1..Len(@) |->
                    IF HasContact(@[i])
                    THEN [@[i] EXCEPT !.contact = <<"child", i>> \in touched]
                    ELSE @[i]]]

Physics ==
    /\ pc = "physics"
    /\ UNCHANGED <<env, movementEvents, menuVars>>
    /\ \/ /\ env.stale \/ physicsPaused \/ Len(players) # 1
          /\ EndFrame(FALSE)
          /\ players' = [p \in 1..Len(players) |-> SyncCollider(players[p])]
          /\ UNCHANGED <<levelRoots, spikes, checkpoints>>
       \/ /\ ~physicsPaused
          /\ Len(players) = 1
          /\ EndFrame(TRUE)
          /\ \E touched \in {T \in SUBSET Touchables : Cardinality(T) <= MaxContacts},
                hits \in SUBSET (IF env.controller THEN HitAngles ELSE {}) :
               PhysicsStep(touched, hits)
    /\ UNCHANGED <<stateVars, saveVars, counterVars, eventVars, commands, todo, done,
                   fatal>>

Next ==
    \/ BeginFrame
    \/ StateTransition
    \/ setup_level
    \/ cleanup_level
    \/ cleanup_level_content
    \/ remove_save
    \/ begin_pause
    \/ end_pause
    \/ pause_system
    \/ resume_button_system
    \/ exit_to_main_menu_button_system
    \/ play_button_system
    \/ level_select_button_system
    \/ back_button_system
    \/ level_button_system
    \/ arrow_button_system
    \/ setup_menu
    \/ cleanup_menu
    \/ moving_platform_system
    \/ keyboard_input
    \/ update_grounded
    \/ update_ducking
    \/ movement
    \/ checkpoint_system
    \/ store_save
    \/ checkpoint_load
    \/ level_complete_condition
    \/ on_level_completed
    \/ apply_deferred
    \/ death_condition
    \/ setup_level_content
    \/ EndUpdate
    \/ SpawnScene
    \/ update_death_counter
    \/ update_hud
    \/ Physics

(* The environments checked. *)
EnvSave == Environment({"checkpoint", "ending"}, MaxReach, TRUE, FALSE, ShortFrame, TRUE, LevelButtons)
EnvSlider == Environment({"checkpoint", "slider"}, 1, TRUE, FALSE, LongFrame, FALSE, {})
EnvDeath ==
    Environment({"spike", "fall", "checkpoint"}, MaxReach, FALSE, FALSE, ShortFrame, TRUE, LevelButtons)
EnvEnd == Environment({"spike", "ending"}, MaxReach, FALSE, FALSE, ShortFrame, TRUE, LevelButtons)
EnvController == Environment({}, 1, FALSE, TRUE, ShortFrame, TRUE, LevelButtons)
EnvPause ==
    Environment({"spike", "fall", "ending", "slider"}, 1, FALSE, FALSE, LongFrame, FALSE, LevelButtons)

(* The level select with level_count returning n. *)
EnvMenu(n) ==
    [Environment({}, 1, FALSE, FALSE, ShortFrame, TRUE, Slots) EXCEPT !.levels = n]

Init == InitWith(EnvSave)
InitMenu == \E n \in 1..MaxLevels : InitWith(EnvMenu(n))
InitDeath == InitWith(EnvDeath)
InitEnd == InitWith(EnvEnd)
InitSlider == InitWith(EnvSlider)
InitController == InitWith(EnvController)
InitPause == InitWith(EnvPause)

Spec == Init /\ [][Next]_vars
SpecDeath == InitDeath /\ [][Next]_vars
SpecEnd == InitEnd /\ [][Next]_vars
SpecSlider == InitSlider /\ [][Next]_vars
SpecController == InitController /\ [][Next]_vars
SpecPause == InitPause /\ [][Next]_vars
SpecMenu == InitMenu /\ [][Next]_vars

(***************************************************************************)
(* The claims.                                                             *)
(***************************************************************************)
Applied(type) == IsSome(applied) /\ Unwrap(applied).type = type

EndOfUpdate == pc = "spawn_scene" /\ ~fatal

(* C1: at the end of a tick in which setup_level_content applied a         *)
(* FullReset, SaveData is absent, whatever the order of store_save and     *)
(* on_level_completed in the tick and whatever the player touched.         *)
C1_SaveDataAbsentAfterFullReset ==
    (EndOfUpdate /\ Applied("FullReset")) => IsNone(saveData)

AfterSpawnScene == pc = "post" /\ ~fatal

Sliders(children) == {i \in 1..Len(children) : children[i].kind = "slider"}

C4_State ==
    (pc = "spawn_scene" /\ Applied("RestoreLastSave") /\ IsNone(saveData)) =>
        /\ ~fatal
        /\ levelRoots = <<[children |-> GenerateEphemeral(gameState.index).children]>>
        /\ Len(spikes) = Len(GenerateFull(gameState.index).spikes)
        /\ Len(checkpoints) = Len(GenerateFull(gameState.index).checkpoints)
        /\ Len(players) = 1
        /\ players[1].pos = Origin

C4_Step ==
    ("setup_level_content" \notin done /\ "setup_level_content" \in done') =>
        /\ deathCounter' = deathCounter
        /\ levelStopwatch' = levelStopwatch

C5_OneDeathPerContact == emitted.since_step <= 1

C5_RespawnInTickOfDeath ==
    (EndOfUpdate /\ emitted.death > 0) =>
        /\ Len(players) = 1
        /\ players[1].pos = IF IsSome(saveData) THEN Unwrap(saveData).position
                             ELSE Origin

C5_ExactlyOneDeath == C5_OneDeathPerContact /\ C5_RespawnInTickOfDeath

(* A witness of C5's case: a Death was sent for a hazard contact, and the  *)
(* player respawned at the checkpoint reached before.                      *)
C5_Witness ==
    /\ EndOfUpdate
    /\ emitted.death = 1
    /\ IsSome(saveData)
    /\ players[1].pos = Unwrap(saveData).position

RunsNow(sys) == sys \notin done /\ sys \in done'

(* C6: in every run of movement that reads a Jump event, the vertical      *)
(* velocity becomes the jump impulse if the controller is grounded and not *)
(* ducking, and stays what it was in every other case.                     *)
C6_Step ==
    (/\ RunsNow("movement")
     /\ Len(players) = 1
     /\ \E i \in 1..Len(movementEvents) : movementEvents[i].action = "Jump") =>
        /\ Len(players') = 1
        /\ players'[1].vel[2] =
             IF players[1].grounded /\ ~players[1].ducking
             THEN players[1].jump_impulse
             ELSE players[1].vel[2]

C6_JumpOnlyGroundedStanding == [][C6_Step]_vars

(* The controller has jumped: grounded, standing, moving up at the jump    *)
(* impulse.                                                                *)
C6_Witness ==
    /\ pc = "update"
    /\ "movement" \in done
    /\ Len(players) = 1
    /\ players[1].grounded
    /\ ~players[1].ducking
    /\ players[1].vel[2] = players[1].jump_impulse

PausedTick == IsPaused(gameState) = "Paused" /\ pc \notin {"first", "transition"}

(* C7: no step of a tick whose state is Level{_, paused: true} sends a     *)
(* Death, LevelComplete, CheckpointSave or LevelRestart event, applies a   *)
(* restart, changes a platform (or anything else under the level root), a  *)
(* hazard or a checkpoint, or changes the death counter or the elapsed     *)
(* level time.                                                             *)
C7_Step ==
    PausedTick =>
        /\ emitted'.death = 0 /\ emitted'.complete = 0
        /\ emitted'.save = 0 /\ emitted'.restart = 0
        /\ <<restartEvents, saveEvents, completeEvents, deathEvents>>' =
             <<restartEvents, saveEvents, completeEvents, deathEvents>>
        /\ applied' = None
        /\ levelRoots' = levelRoots
        /\ spikes' = spikes
        /\ checkpoints' = checkpoints
        /\ deathCounter' = deathCounter
        /\ levelStopwatch' = levelStopwatch

C7_PausedRunsNoChecks == [][C7_Step]_vars

(* A paused tick has run to its end while the player was in a hazard's     *)
(* contact set and a slider was on its way.                                *)
C7_Witness ==
    /\ IsPaused(gameState) = "Paused"
    /\ pc = "physics"
    /\ \E i \in 1..Len(spikes) : spikes[i].contact
    /\ Len(levelRoots) = 1
    /\ \E i \in Sliders(levelRoots[1].children) :
         LET e == levelRoots[1].children[i]
         IN e.active /\ e.t > 0 /\ e.t < TScale

(* C8: no step of a paused tick changes the player: its velocity,          *)
(* position, scale, collider scale, Grounded and Ducking flags stay what   *)
(* they were, whatever keys are pressed.                                   *)
C8_Step == PausedTick => players' = players

C8_PausedSuspendsController == [][C8_Step]_vars

(* C9: every slider platform has 0 <= t <= 1 in every state; and a run of  *)
(* moving_platform_system changes a platform's direction flag only to      *)
(* backward with t = 1 after it, or to forward with t = 0 after it.        *)
C9_State == \A r \in 1..Len(levelRoots) : \A i \in Sliders(levelRoots[r].children) :
    levelRoots[r].children[i].t \in 0..TScale

C9_Step ==
    RunsNow("moving_platform_system") =>
        /\ Len(levelRoots') = Len(levelRoots)
        /\ \A r \in 1..Len(levelRoots) :
             \A i \in Sliders(levelRoots[r].children) :
                LET before == levelRoots[r].children[i]
                    after == levelRoots'[r].children[i]
                IN after.moving_backward # before.moving_backward =>
                     \/ after.moving_backward /\ after.t = TScale
                     \/ ~after.moving_backward /\ after.t = 0

C9_SliderRange == [](C9_State) /\ [][C9_Step]_vars

(* A slider has reached b: t = 1 and the direction is backward. *)
C9_Witness ==
    \E r \in 1..Len(levelRoots) : \E i \in Sliders(levelRoots[r].children) :
        LET e == levelRoots[r].children[i]
        IN e.active /\ e.t = TScale /\ e.moving_backward /\ e.pos = e.b

AfterSyncPoint == pc = "update" /\ "apply_deferred" \in done

(* C10: once the sync point after update_grounded has run in a tick, the   *)
(* Grounded marker is present iff some hit of the controller's ShapeHits   *)
(* is within the max slope angle of world-up (any hit, if no angle is      *)
(* configured), whatever the marker was before.                            *)
C10_GroundedIffHit ==
    AfterSyncPoint =>
        \A p \in 1..Len(players) :
            players[p].grounded <=>
                IF IsSome(players[p].max_slope_angle)
                THEN \E hit \in players[p].hits :
                        Abs(hit) <= Unwrap(players[p].max_slope_angle)
                ELSE players[p].hits # {}

(* The only hit is on a slope steeper than the max slope angle: not        *)
(* grounded after the sync point.                                          *)
C10_Witness ==
    /\ AfterSyncPoint
    /\ Len(players) = 1
    /\ players[1].hits # {}
    /\ \A hit \in players[1].hits : hit > Unwrap(players[1].max_slope_angle)
    /\ ~players[1].grounded

(* C11: a duck transition of a standing controller lowers the origin by    *)
(* the same amount by which the stand transition that follows the collider *)
(* scale synchronisation raises it, the horizontal coordinate is untouched *)
(* by both, the stand restores scale 1, and the synchronisation then       *)
(* restores the collider scale: the round trip has no drift.              *)
C11_State ==
    pc = "first" => \A p \in 1..Len(players) :
                       players[p].collider_scale_y = players[p].scale_y

C11_Step ==
    (RunsNow("update_ducking") /\ Len(players) = 1) =>
        LET before == players[1]
            after == players'[1]
            down == before.pos[2] - after.pos[2]
            up == after.pos[2] - before.pos[2]
        IN /\ (~before.ducking /\ after.scale_y # before.scale_y) =>
                /\ before.scale_y = 2 /\ before.collider_scale_y = 2
                /\ after.scale_y = 1
                /\ down = PLAYER_SIZE_Y \div 4
                /\ after.pos[1] = before.pos[1]
           /\ (before.ducking /\ after.scale_y # before.scale_y) =>
                /\ before.scale_y = 1 /\ before.collider_scale_y = 1
                /\ after.scale_y = 2
                /\ up = PLAYER_SIZE_Y \div 4
                /\ after.pos[1] = before.pos[1]

C11_DuckStandRoundTrip == [](C11_State) /\ [][C11_Step]_vars

(* The controller has just stood up from a duck: the Transform scale is 1  *)
(* again, the collider still has the ducked scale and the Ducking marker   *)
(* is still to be removed at the sync point.                               *)
C11_Witness ==
    /\ pc = "update"
    /\ "update_ducking" \in done
    /\ "apply_deferred" \notin done
    /\ Len(players) = 1
    /\ players[1].ducking
    /\ players[1].scale_y = 2
    /\ players[1].collider_scale_y = 1

ActiveCheckpoints(cps) == {i \in 1..Len(cps) : cps[i].active}

(* The checkpoints the checkpoint stage leaves, run on cps. *)
AfterCheckpointStage(cps) ==
    LET r == CheckpointLoop(cps, 1, None, <<>>)
    IN IF IsSome(r.active_checkpoint)
       THEN [r.checkpoints EXCEPT ![Unwrap(r.active_checkpoint)].active = TRUE]
       ELSE r.checkpoints

(* C12: at most one checkpoint is active in every state; the checkpoint    *)
(* stage run on the current checkpoints with any combination of active     *)
(* flags and contacts leaves at most one active; and a run of the stage in *)
(* which the player touches no checkpoint leaves every active flag as it   *)
(* was.                                                                    *)
C12_State ==
    /\ Cardinality(ActiveCheckpoints(checkpoints)) <= 1
    /\ \A active \in [1..Len(checkpoints) -> BOOLEAN] :
         \A contact \in [1..Len(checkpoints) -> BOOLEAN] :
            LET cps == [i \in 1..Len(checkpoints) |->
                          [checkpoints[i] EXCEPT !.active = active[i],
                                                 !.contact = contact[i]]]
            IN Cardinality(ActiveCheckpoints(AfterCheckpointStage(cps))) <= 1

C12_Step ==
    RunsNow("checkpoint_system") =>
        /\ Len(checkpoints') = Len(checkpoints)
        /\ Cardinality(ActiveCheckpoints(checkpoints')) <= 1
        /\ (\A i \in 1..Len(checkpoints) : ~checkpoints[i].contact) =>
              ActiveCheckpoints(checkpoints') = ActiveCheckpoints(checkpoints)

C12_AtMostOneActive == [](C12_State) /\ [][C12_Step]_vars

(* The checkpoint stage has run with the player touching two checkpoints   *)
(* at once: the later one in query order is the active one.                *)
C12_Witness ==
    /\ pc = "update"
    /\ "checkpoint_system" \in done
    /\ Len(checkpoints) >= 2
    /\ checkpoints[1].contact /\ checkpoints[2].contact
    /\ ActiveCheckpoints(checkpoints) = {2}

Touched(cps) == {i \in 1..Len(cps) : cps[i].contact}

(* C13, the request: a run of the checkpoint stage in which every          *)
(* checkpoint the player touches is already active sends no save request.  *)
C13_NoRequest ==
    (/\ RunsNow("checkpoint_system")
     /\ Touched(checkpoints) # {}
     /\ Touched(checkpoints) \subseteq ActiveCheckpoints(checkpoints)) =>
        /\ saveEvents' = saveEvents
        /\ emitted'.save = emitted.save

(* C13, the save: in a tick in which the player touches only the active    *)
(* checkpoint and no save request was sent, the save stage leaves SaveData *)
(* and the stored snapshots as they are and queues no insertion.           *)
C13_NoSave ==
    (/\ RunsNow("store_save")
     /\ emitted.save = 0
     /\ Touched(checkpoints) # {}
     /\ Touched(checkpoints) \subseteq ActiveCheckpoints(checkpoints)) =>
        /\ saveData' = saveData
        /\ dynamicScenes' = dynamicScenes
        /\ commands' = commands

(* C13: touching an already active checkpoint issues no save request and   *)
(* leaves SaveData (snapshot and respawn position) unchanged.              *)
C13_RetouchIsIdempotent == [][C13_NoRequest /\ C13_NoSave]_vars

C13_RetouchSendsNoRequest == [][C13_NoRequest]_vars

(* The save requests a step adds to the queue. *)
NewSaveRequests ==
    {saveEvents'[k].ev : k \in (Len(saveEvents) + 1)..Len(saveEvents')}

(* C14: every save request the checkpoint stage sends is for a touched,    *)
(* not yet active checkpoint and carries that checkpoint's x and its y     *)
(* plus half the player height (20); and every such checkpoint gets one.   *)
C14_Step ==
    (RunsNow("checkpoint_system") /\ Len(players) = 1) =>
        NewSaveRequests =
            {[position |-> <<checkpoints[i].pos[1],
                             checkpoints[i].pos[2] + PLAYER_SIZE_Y \div 2>>] :
                i \in Touched(checkpoints) \ ActiveCheckpoints(checkpoints)}

C14_RespawnHalfHeightAbove == [][C14_Step]_vars

CompletionFired == emitted.complete > 0

(* The FullReset events a step adds to the queue. *)
NewFullResets ==
    {k \in (Len(restartEvents) + 1)..Len(restartEvents') :
        restartEvents'[k].ev.type = "FullReset"}

(* C15, the state: at the end of Update of a tick in which the completion  *)
(* condition fired in Level{index, paused: false}, the next state is       *)
(* Level{index + 1, paused: false}.                                        *)
C15_NextState ==
    (EndOfUpdate /\ CompletionFired) =>
        nextState = Some(Level(gameState.index + 1, FALSE))

(* C15, the reset: at the end of Update of such a tick FullReset(index+1)  *)
(* has been applied.                                                       *)
C15_ResetApplied ==
    (EndOfUpdate /\ CompletionFired) =>
        applied = Some(FullReset(gameState.index + 1))

(* C15, the count: the handler of a completion sends exactly one           *)
(* FullReset, for index + 1, and no other step of the tick sends one.      *)
C15_OneReset ==
    (pc = "update" /\ IsPaused(gameState) = "Unpaused") =>
        IF RunsNow("on_level_completed") /\ completeEvents > 0
        THEN /\ Cardinality(NewFullResets) = 1
             /\ \A k \in NewFullResets :
                  restartEvents'[k].ev = FullReset(gameState.index + 1)
        ELSE NewFullResets = {}

(* C15: when the completion condition fires in Level{index, paused:        *)
(* false}, the next state becomes Level{index + 1, paused: false} and      *)
(* exactly one FullReset(index + 1) is emitted and applied, also with a    *)
(* pause toggle requested in the same tick.                                *)
C15_CompletionAdvances ==
    [](C15_NextState /\ C15_ResetApplied) /\ [][C15_OneReset]_vars

(* Every stage of the tick has run; the physics step is what remains. *)
EndOfStages == pc = "physics" /\ ~fatal

(* C16, the counter: after the stages of a tick in which the completion    *)
(* fired, the death counter is 0.                                          *)
C16_DeathsZero == (EndOfStages /\ CompletionFired) => deathCounter = 0

(* C16, the time: after the stages of such a tick the elapsed level time   *)
(* is 0.                                                                   *)
C16_TimeZero == (EndOfStages /\ CompletionFired) => levelStopwatch = Some(0)

(* C16: at the end of a tick in which the level completion fired, the      *)
(* death counter is 0 and the elapsed level time is 0, also when a Death   *)
(* is sent in the same tick after the completion was handled.              *)
C16_CountersZeroAfterCompletion == C16_DeathsZero /\ C16_TimeZero

(* The level scripts that exist. *)
KnownScripts == {0, 1}

(* C17, the generator: a run of setup_level_content that applies a restart *)
(* event is fatal iff it generates a level (full mode for FullReset(k),    *)
(* ephemeral-only mode for RestoreLastSave without SaveData) whose index   *)
(* is not a known script; no index below level_count is fatal.  And the    *)
(* handler of a completion in the last level, Level{level_count - 1},      *)
(* requests Level{level_count} and FullReset(level_count), which is such   *)
(* an index.                                                               *)
C17_Step ==
    /\ (RunsNow("setup_level_content") /\ restartEvents # <<>>) =>
          LET ev == Head(restartEvents).ev
              generates == ev.type = "FullReset" \/ IsNone(saveData)
              index == IF ev.type = "FullReset" THEN ev.index ELSE gameState.index
          IN /\ fatal' <=> (generates /\ index \notin KnownScripts)
             /\ index < LevelCount => ~fatal'
    /\ (RunsNow("on_level_completed") /\ completeEvents > 0
            /\ gameState.index = LevelCount - 1) =>
          /\ nextState' = Some(Level(LevelCount, FALSE))
          /\ restartEvents'[Len(restartEvents')].ev = FullReset(LevelCount)
          /\ LevelCount \notin KnownScripts

C17_State == fatal => (IsSome(applied) /\ pc = "update")

C17_UnknownIndexIsFatal == [](C17_State) /\ [][C17_Step]_vars

(* The last level was completed and the FullReset for the index after it   *)
(* was fatal.                                                              *)
C17_Witness ==
    /\ fatal
    /\ applied = Some(FullReset(LevelCount))
    /\ gameState = Level(LevelCount, FALSE)

(* The two directions of C18, at the end of the stages of a tick in a      *)
(* level.                                                                  *)
C18_SaveImpliesActive ==
    (EndOfStages /\ InLevel(gameState)) =>
        (IsSome(saveData) => ActiveCheckpoints(checkpoints) # {})

C18_ActiveImpliesSave ==
    (EndOfStages /\ InLevel(gameState)) =>
        (ActiveCheckpoints(checkpoints) # {} => IsSome(saveData))

(* C18: once all stages of a tick inside a level have run, SaveData exists *)
(* iff some checkpoint of the current level is active.                     *)
C18_SaveDataIffCheckpointActive ==
    C18_SaveImpliesActive /\ C18_ActiveImpliesSave

TouchedSpikes == {i \in 1..Len(spikes) : spikes[i].contact}

BelowWorld == Len(players) = 1 /\ players[1].pos[2] <= BOTTOM_WORLD_BOUNDARY

(* C19: every run of death_condition (one per unpaused tick) sends a Death *)
(* iff the player is in the contact set of some hazard or at or below the  *)
(* world bottom; it sends one Death and one RestoreLastSave, never more,   *)
(* also when both conditions hold or several hazards are touched; and one  *)
(* touched hazard becomes visible.                                         *)
C19_Step ==
    /\ (pc = "update" /\ pc' = "spawn_scene"
            /\ InLevel(gameState) /\ ~gameState.paused) =>
          "death_condition" \in done
    /\ RunsNow("death_condition") =>
        LET dies == TouchedSpikes # {} \/ BelowWorld
            n == IF dies THEN 1 ELSE 0
        IN /\ emitted'.death = emitted.death + n
           /\ deathEvents' = deathEvents + n
           /\ restartEvents' =
                  IF dies THEN Append(restartEvents, Fresh(RestoreLastSave))
                  ELSE restartEvents
           /\ IF TouchedSpikes # {}
              THEN \E i \in TouchedSpikes :
                       spikes' = [spikes EXCEPT ![i].visible = TRUE]
              ELSE spikes' = spikes

C19_State == emitted.death <= 1

C19_DeathIffHazardOrFall == [](C19_State) /\ [][C19_Step]_vars

(* Both conditions at once: the player was below the world bottom and in   *)
(* the contact set of a hazard; one Death was sent.                        *)
C19_Witness ==
    /\ pc = "update"
    /\ "death_condition" \in done
    /\ TouchedSpikes # {}
    /\ BelowWorld
    /\ emitted.death = 1
    /\ deathEvents = 1
    /\ \E i \in TouchedSpikes : spikes[i].visible

(* What a pause toggle has to leave alone. *)
LevelWorld == <<players, levelRoots, spikes, checkpoints, saveData, deathCounter,
                levelStopwatch>>

(* NextState holds a pause toggle of the current level state. *)
PendingToggle ==
    /\ InLevel(gameState)
    /\ nextState = Some(Level(gameState.index, ~gameState.paused))

(* The toggle is requested by pause_system or by the resume button, for    *)
(* the same index, and the request changes nothing else.                   *)
C20_Request ==
    ((RunsNow("pause_system") \/ RunsNow("resume_button_system"))
        /\ nextState' # nextState) =>
        /\ PendingToggle'
        /\ gameState' = gameState
        /\ LevelWorld' = LevelWorld

(* A requested toggle is still the pending state when the state            *)
(* transition runs.                                                        *)
C20_Kept == (PendingToggle /\ pc # "transition") => PendingToggle'

(* The transition of a pending toggle leads to Level{index, not paused}    *)
(* and runs begin_pause or end_pause only; nothing else changes.           *)
C20_Effect ==
    /\ (PendingToggle /\ pc = "transition") =>
          /\ gameState' = Level(gameState.index, ~gameState.paused)
          /\ todo' = IF gameState.paused THEN <<"end_pause">> ELSE <<"begin_pause">>
          /\ LevelWorld' = LevelWorld
    /\ (pc = "handlers" /\ todo # <<>>
            /\ Head(todo) \in {"begin_pause", "end_pause"}) =>
          /\ gameState' = gameState
          /\ physicsPaused' = (Head(todo) = "begin_pause")
          /\ LevelWorld' = LevelWorld

C20_ToggleChangesNothingElse == [][C20_Request /\ C20_Effect]_vars

(* C20: a pause toggle in Level{index, paused} leads to Level{index, not   *)
(* paused} with the same index and changes nothing else: player, level     *)
(* root subtree, hazards, checkpoints, SaveData, death counter and elapsed *)
(* time are the same before and after the toggle takes effect.             *)
C20_PauseToggleOnly == [][C20_Request /\ C20_Kept /\ C20_Effect]_vars

(* C21: once the OnExit / OnEnter systems of a transition have run, there  *)
(* is exactly one Player entity in every Level state and none in the       *)
(* menus; a transition from one Level state to another (a completion or a  *)
(* pause toggle) runs neither setup_level nor cleanup_level and keeps the  *)
(* player.                                                                 *)
C21_State ==
    pc # "handlers" =>
        Len(players) = (IF InLevel(gameState) THEN 1 ELSE 0)

C21_Step ==
    (pc = "transition" /\ InLevel(gameState) /\ InLevel(gameState')) =>
        /\ players' = players
        /\ \A i \in 1..Len(todo') : todo'[i] \notin {"setup_level", "cleanup_level"}

C21_ExactlyOnePlayer == [](C21_State) /\ [][C21_Step]_vars

(* Level{1} in Update, after a death was counted there: one player.        *)
C21_Witness ==
    /\ gameState = Level(1, FALSE)
    /\ pc = "update"
    /\ Len(players) = 1
    /\ deathCounter > 0

(* C22: outside a level, once the OnExit systems have run, there is no     *)
(* Player, LevelRoot, hazard, checkpoint or SaveData and physics time is   *)
(* not paused; and a level is entered with no SaveData and elapsed time 0. *)
C22_State ==
    /\ (pc # "handlers" /\ ~InLevel(gameState)) =>
          /\ players = <<>>
          /\ levelRoots = <<>>
          /\ spikes = <<>>
          /\ checkpoints = <<>>
          /\ IsNone(saveData)
          /\ ~physicsPaused
    /\ (pc = "handlers" /\ todo # <<>> /\ Head(todo) = "setup_level") =>
          IsNone(saveData)

C22_Step ==
    (pc = "handlers" /\ pc' = "update" /\ InLevel(gameState)
        /\ "setup_level" \notin {todo'[i] : i \in 1..Len(todo')}
        /\ Head(todo) = "setup_level") =>
        /\ IsNone(saveData')
        /\ levelStopwatch' = Some(0)

C22_ExitLeavesNothing == [](C22_State) /\ [][C22_Step]_vars

(* The main menu after a level was left in which the player had died.     *)
C22_Witness ==
    /\ gameState = MainMenu
    /\ pc = "update"
    /\ deathCounter > 0
    /\ players = <<>>

(* The permanent hazards and checkpoints in the world, by what the         *)
(* generator gave them.                                                    *)
Permanent ==
    <<[i \in 1..Len(spikes) |-> <<spikes[i].pos, spikes[i].group>>],
      [i \in 1..Len(checkpoints) |-> checkpoints[i].pos]>>

(* C23: outside the OnExit / OnEnter systems, no step of a tick in which   *)
(* setup_level_content has not applied a FullReset removes, adds or moves  *)
(* a permanent hazard or checkpoint; and once the scene spawner has run in *)
(* a tick that applied RestoreLastSave there is exactly one level root.    *)
C23_Step ==
    (pc # "handlers" /\ ~(IsSome(applied') /\ Unwrap(applied').type = "FullReset")) =>
        Permanent' = Permanent

C23_State ==
    (AfterSpawnScene /\ Applied("RestoreLastSave")) => Len(levelRoots) = 1

C23_RestoreKeepsPermanent == [](C23_State) /\ [][C23_Step]_vars

(* A second death in a row has been restored: the hazards and checkpoints  *)
(* are there, one of them touched.                                         *)
C23_Witness ==
    /\ pc = "hud"
    /\ Applied("RestoreLastSave")
    /\ deathCounter >= 2
    /\ spikes # <<>>
    /\ checkpoints # <<>>
    /\ \E i \in 1..Len(spikes) : spikes[i].visible

(* The stages whose level root is missing: a save request is dropped and   *)
(* nothing is stored; a restart event is applied without the despawn of    *)
(* the old root; neither is fatal.                                         *)
C24_RootStep ==
    /\ (RunsNow("store_save") /\ saveEvents # <<>> /\ Len(levelRoots) # 1) =>
          /\ ~fatal'
          /\ saveData' = saveData
          /\ dynamicScenes' = dynamicScenes
          /\ commands' = commands
    /\ (RunsNow("setup_level_content") /\ restartEvents # <<>>
            /\ Len(levelRoots) # 1 /\ ~RestartPanics(Head(restartEvents).ev)) =>
          /\ ~fatal'
          /\ \A i \in 1..Len(commands') : commands'[i] # CmdDespawnRoot
    /\ (RunsNow("death_condition") /\ Len(players) # 1) =>
          /\ ~fatal'
          /\ deathEvents' = deathEvents
          /\ restartEvents' = restartEvents

C24_MissingRootSkips == [][C24_RootStep]_vars

(* The restart events whose level index has a script. *)
ValidRestarts ==
    {FullReset(index) : index \in 0..(LevelCount - 1)}
    \cup (IF IsSome(saveData) \/ ValidIndex(gameState.index)
          THEN {RestoreLastSave} ELSE {})

(* setup_level_content, given a restart event it could apply, is not fatal *)
(* when no Player exists.                                                  *)
C24_NoPlayerStep == \A ev \in ValidRestarts : ~RestartPanicsWith(<<>>, ev)

Moves(events) == {i \in 1..Len(events) : events[i].action = "Move"}

(* C25: a run of movement that reads Move events leaves the horizontal     *)
(* velocity at direction x speed x tick-delta of the last Move read,       *)
(* whatever it was before (0 for Move(0)), and, unless a Jump was read as  *)
(* well, leaves the vertical velocity as it was.                           *)
C25_Step ==
    (RunsNow("movement") /\ Len(players) = 1 /\ Moves(movementEvents) # {}) =>
        LET last == CHOOSE i \in Moves(movementEvents) :
                        \A j \in Moves(movementEvents) : j <= i
            direction == movementEvents[last].direction
        IN /\ players'[1].vel[1] =
                (direction * players[1].movement_speed * env.delta) \div 1000
           /\ direction = 0 => players'[1].vel[1] = 0
           /\ (\A i \in 1..Len(movementEvents) : movementEvents[i].action # "Jump")
                 => players'[1].vel[2] = players[1].vel[2]

C25_MoveReassignsVelocity == [][C25_Step]_vars

(* movement has read Move(-1) while the ducking controller was moving up:  *)
(* it moves left at speed x delta and still moves up.                      *)
C25_Witness ==
    /\ pc = "update"
    /\ "movement" \in done
    /\ Len(players) = 1
    /\ players[1].vel[1] = (-1 * players[1].movement_speed * env.delta) \div 1000
    /\ players[1].vel[1] < 0
    /\ players[1].vel[2] > 0
    /\ players[1].ducking

(* update_ducking is about to run on a controller with Ducking. *)
DuckingBeforeUpdate ==
    /\ pc = "update"
    /\ "update_ducking" \notin done
    /\ Len(players) = 1
    /\ players[1].ducking

(* C26: for a controller with Ducking, update_ducking with a hit of the    *)
(* headroom cast changes nothing and queues nothing, whether the duck key  *)
(* is held or not; it changes the controller only when the key is released *)
(* and the cast has no hit.  Every run of update_ducking is one of these   *)
(* cases.                                                                  *)
C26_State ==
    DuckingBeforeUpdate =>
        /\ \A pressed \in BOOLEAN :
              Duck(players[1], 1, pressed, TRUE) = [player |-> players[1], cmds |-> <<>>]
        /\ \A pressed \in BOOLEAN, blocked \in BOOLEAN :
              Duck(players[1], 1, pressed, blocked) # [player |-> players[1], cmds |-> <<>>]
                  => (~pressed /\ ~blocked)

C26_Step ==
    (RunsNow("update_ducking") /\ Len(players) = 1) =>
        \E pressed \in BOOLEAN, blocked \in BOOLEAN :
            /\ players' = <<Duck(players[1], 1, pressed, blocked).player>>
            /\ commands' = commands \o Duck(players[1], 1, pressed, blocked).cmds

C26_BlockedStaysDucking == [](C26_State) /\ [][C26_Step]_vars

(* update_ducking has run on a ducking controller and left it ducking,     *)
(* half as high and with nothing queued.                                   *)
C26_Witness ==
    /\ pc = "update"
    /\ "update_ducking" \in done
    /\ Len(players) = 1
    /\ players[1].ducking
    /\ players[1].scale_y = 1
    /\ players[1].collider_scale_y = 1
    /\ commands = <<>>

(* C27: a slider that is not active is idle (t = 0, forward, at a), and    *)
(* moving_platform_system, which runs in every unpaused tick of a level,   *)
(* leaves it so while its contact set is empty, makes it active in the     *)
(* tick its contact set is non-empty, and keeps an active platform active  *)
(* and advances it whether or not anything touches it; the physics step    *)
(* does not change its motion state.                                       *)
C27_State ==
    \A r \in 1..Len(levelRoots) : \A i \in Sliders(levelRoots[r].children) :
        LET e == levelRoots[r].children[i]
        IN ~e.active => (e.t = 0 /\ ~e.moving_backward /\ e.pos = e.a)

C27_Step ==
    /\ (pc = "update" /\ pc' = "spawn_scene"
            /\ InLevel(gameState) /\ ~gameState.paused) =>
          "moving_platform_system" \in done
    /\ RunsNow("moving_platform_system") =>
          /\ Len(levelRoots') = Len(levelRoots)
          /\ \A r \in 1..Len(levelRoots) :
               \A i \in Sliders(levelRoots[r].children) :
                  LET before == levelRoots[r].children[i]
                      after == levelRoots'[r].children[i]
                      sign == IF before.moving_backward THEN -1 ELSE 1
                      step == (before.delta_t_per_second * env.delta) \div 1000
                  IN /\ (~before.active /\ ~before.contact) => after = before
                     /\ before.contact => after.active
                     /\ (before.active \/ before.contact) =>
                           /\ after.active
                           /\ after.t = Clamp(before.t + step * sign, 0, TScale)
                           /\ after.t # before.t
    /\ pc = "physics" =>
          /\ Len(levelRoots') = Len(levelRoots)
          /\ \A r \in 1..Len(levelRoots) :
               \A i \in Sliders(levelRoots[r].children) :
                  LET before == levelRoots[r].children[i]
                      after == levelRoots'[r].children[i]
                  IN after = [before EXCEPT !.contact = after.contact]

C27_SliderActivation == [](C27_State) /\ [][C27_Step]_vars

(* A slider has advanced in this tick, on its way back, with nothing       *)
(* touching it.                                                            *)
C27_Witness ==
    /\ pc = "update"
    /\ "moving_platform_system" \in done
    /\ \E r \in 1..Len(levelRoots) : \E i \in Sliders(levelRoots[r].children) :
         LET e == levelRoots[r].children[i]
         IN e.active /\ ~e.contact /\ e.moving_backward /\ e.t > 0 /\ e.t < TScale

(* The sliders whose contact set holds the player, the only Dynamic body. *)
TouchedSliders ==
    {e \in {AllChildren[i] : i \in 1..Len(AllChildren)} :
        e.kind = "slider" /\ e.contact}

(* C28: a run of moving_platform_system shifts the player, when it is in   *)
(* the contact set of a slider, horizontally by speed x tick-delta in the  *)
(* direction the platform had before the run, and leaves its vertical      *)
(* position and its velocity alone; a player in no slider's contact set,   *)
(* the hazards, the checkpoints and the children of the level root that    *)
(* are not sliders are not moved.                                          *)
C28_Step ==
    RunsNow("moving_platform_system") =>
        /\ spikes' = spikes
        /\ checkpoints' = checkpoints
        /\ \A r \in 1..Len(levelRoots) : \A i \in 1..Len(levelRoots[r].children) :
              levelRoots[r].children[i].kind # "slider" =>
                  levelRoots'[r].children[i] = levelRoots[r].children[i]
        /\ Len(players') = Len(players)
        /\ Len(players) = 1 =>
              /\ TouchedSliders = {} => players' = players
              /\ \A e \in TouchedSliders :
                    TouchedSliders = {e} =>
                      players' = <<[players[1] EXCEPT
                         !.pos[1] = @ + ((e.speed * env.delta) \div 1000)
                                        * (IF e.moving_backward THEN -1 ELSE 1)]>>

C28_CarriedBySlider == [][C28_Step]_vars

(* The player stood on a slider on its way back and has been carried       *)
(* backward in this tick.                                                  *)
C28_Witness ==
    /\ pc = "update"
    /\ "moving_platform_system" \in done
    /\ "setup_level_content" \notin done
    /\ Len(players) = 1
    /\ \E e \in TouchedSliders :
         /\ e.active /\ e.moving_backward /\ e.t > 0 /\ e.t < TScale
         /\ players[1].pos[1] = Away[1] - (e.speed * env.delta) \div 1000

(* The spans the spike_group properties are checked on. *)
MaxSpan == 60
SpanStarts == {-600, -30, 0, 5}

(* What spike_group(start_x, end_x, y) has to spawn, given the hazards it  *)
(* spawned as group number group.                                          *)
IsSpikeGroup(hazards, start_x, end_x, y, group) ==
    /\ Len(hazards) = (end_x - start_x) \div SPIKE_SIZE + 1
    /\ \A i \in 1..Len(hazards) :
          /\ hazards[i].pos[2] = y
          /\ hazards[i].pos[1] >= start_x
          /\ hazards[i].pos[1] <= end_x
          /\ hazards[i].group = Some(group)
          /\ ~hazards[i].visible
    /\ \A i \in 1..(Len(hazards) - 1) :
          hazards[i + 1].pos[1] = hazards[i].pos[1] + SPIKE_SIZE

GroupCalls(script) == SelectSeq(script, LAMBDA o : o.op = "spike_group")
SpikeCalls(script) == SelectSeq(script, LAMBDA o : o.op = "spike")

(* C29: spike_group(start_x, end_x, y) with start_x <= end_x spawns        *)
(* floor((end_x - start_x) / 24) + 1 hazards at height y, 24 apart, within *)
(* [start_x, end_x], all with the same group id.  After a full generation  *)
(* the n-th spike_group call of the script has group id n - 1 and its      *)
(* hazards are in the world, and the hazards of spike() calls have no      *)
(* group id.  The ephemeral-only generation spawns no hazard and no        *)
(* checkpoint.                                                             *)
C29_SpikeGroupTiling ==
    (EndOfUpdate /\ Applied("FullReset")) =>
        LET script == Script(Unwrap(applied).index)
            calls == GroupCalls(script)
            InGroup(n) == SelectSeq(spikes, LAMBDA h : h.group = Some(n - 1))
        IN /\ \A start_x \in SpanStarts : \A end_x \in start_x..(start_x + MaxSpan) :
                \A group \in 0..1 :
                   IsSpikeGroup(SpikeGroup(start_x, end_x, -100, group),
                                start_x, end_x, -100, group)
           /\ \A n \in 1..Len(calls) :
                IsSpikeGroup(InGroup(n), calls[n].start_x, calls[n].end_x,
                             calls[n].y, n - 1)
           /\ Len(SelectSeq(spikes, LAMBDA h : IsNone(h.group)))
                = Len(SpikeCalls(script))
           /\ \A i \in 1..Len(spikes) :
                spikes[i].group \in {None} \cup {Some(n - 1) : n \in 1..Len(calls)}
           /\ \A index \in 0..(LevelCount - 1) :
                /\ GenerateEphemeral(index).spikes = <<>>
                /\ GenerateEphemeral(index).checkpoints = <<>>

(* Level 0 has been generated in full: three groups of hazards and the     *)
(* single hazard are in the world.                                         *)
C29_Witness ==
    /\ EndOfUpdate
    /\ applied = Some(FullReset(0))
    /\ \E i \in 1..Len(spikes) : spikes[i].group = Some(2)
    /\ \E i \in 1..Len(spikes) : spikes[i].group = None
    /\ Len(spikes) = 25

(* C30: at the end of a tick that applied a FullReset every hazard is      *)
(* hidden.  In the steps that do not belong to the regeneration of a       *)
(* FullReset or to leaving the level, a hazard becomes visible only in a   *)
(* run of death_condition that sends a Death while the player is in its    *)
(* contact set, and a visible hazard stays visible.                        *)
C30_State ==
    (EndOfUpdate /\ Applied("FullReset")) =>
        \A i \in 1..Len(spikes) : ~spikes[i].visible

C30_Step ==
    (pc # "handlers" /\ ~(IsSome(applied') /\ Unwrap(applied').type = "FullReset")) =>
        /\ Len(spikes') = Len(spikes)
        /\ \A i \in 1..Len(spikes) :
              /\ spikes[i].visible => spikes'[i].visible
              /\ (~spikes[i].visible /\ spikes'[i].visible) =>
                    /\ RunsNow("death_condition")
                    /\ spikes[i].contact
                    /\ emitted'.death = emitted.death + 1

C30_HazardVisibility == [](C30_State) /\ [][C30_Step]_vars

(* After two deaths and their restores a hazard that is no longer touched  *)
(* is still visible, and another one has stayed hidden.                    *)
C30_Witness ==
    /\ pc = "physics"
    /\ Applied("RestoreLastSave")
    /\ deathCounter >= 2
    /\ \E i \in 1..Len(spikes) : spikes[i].visible /\ ~spikes[i].contact
    /\ \E i \in 1..Len(spikes) : ~spikes[i].visible

Snapshots == Cardinality(dynamicScenes)

(* C31: once the stages of a tick have run, at most one snapshot is stored *)
(* in Assets<DynamicScene>, and one is stored iff SaveData exists.          *)
C31_State ==
    EndOfUpdate => (Snapshots <= 1 /\ (Snapshots = 1 <=> IsSome(saveData)))

(* A save request processed while SaveData exists leaves one snapshot, the *)
(* new one, and SaveData names it with the position of the request.         *)
C31_ReplaceStep ==
    (RunsNow("store_save") /\ IsSome(create_save) /\ IsSome(saveData)
        /\ Snapshots = 1 /\ SceneExists(Unwrap(saveData).scene)) =>
        /\ IsSome(saveData')
        /\ dynamicScenes' = {[id |-> Unwrap(saveData').scene,
                              scene |-> Unwrap(create_save).scene]}
        /\ Unwrap(saveData').position = Unwrap(create_save).position

C31_SaveReplacesSnapshot == [][C31_ReplaceStep]_vars

C31_OneSnapshotIffSaveData == [](C31_State) /\ [][C31_ReplaceStep]_vars

(* The restart events the death stage and the completion stage have sent in *)
(* this tick.                                                               *)
SentByDeathOrCompletion == emitted.death + (IF emitted.complete > 0 THEN 1 ELSE 0)

(* The level root setup_level_content spawns for a restart event, as it is *)
(* at the end of Update (a snapshot is instantiated in SpawnScene).         *)
RootFor(ev) ==
    IF ev.type = "FullReset" THEN GenerateFull(ev.index).children
    ELSE IF IsSome(saveData) THEN <<>>
    ELSE GenerateEphemeral(gameState.index).children

(* C32, the restart: at the end of Update of a tick in which the death or  *)
(* the completion stage sent a restart event, that event is the one the    *)
(* regeneration stage applied: none of them is still unread, the player is *)
(* at the respawn position and the level root is the newly spawned one.    *)
C32_RestartApplied ==
    (EndOfUpdate /\ SentByDeathOrCompletion > 0) =>
        /\ SentByDeathOrCompletion = 1
        /\ applied = Some(IF emitted.complete > 0 THEN FullReset(gameState.index + 1)
                          ELSE RestoreLastSave)
        /\ \A k \in 1..Len(restartEvents) :
              restartEvents[k].ev.type # Unwrap(applied).type
        /\ Len(players) = 1
        /\ players[1].pos = (IF Applied("RestoreLastSave") /\ IsSome(saveData)
                             THEN Unwrap(saveData).position ELSE Origin)
        /\ Len(levelRoots) = 1
        /\ levelRoots[1].children = RootFor(Unwrap(applied))

(* C32, the save: at the end of Update of a tick in which the checkpoint   *)
(* stage sent a save request, no request is unread and SaveData holds the  *)
(* respawn position of a checkpoint and a stored snapshot.                  *)
C32_SaveStored ==
    (EndOfUpdate /\ emitted.save > 0) =>
        /\ saveEvents = <<>>
        /\ IsSome(saveData)
        /\ SceneExists(Unwrap(saveData).scene)
        /\ \E i \in 1..Len(checkpoints) :
              Unwrap(saveData).position = SavePosition(checkpoints[i].pos)

(* C32: a restart event sent by the death or completion stage is applied   *)
(* by the regeneration stage of the same tick, and a save request sent by  *)
(* the checkpoint stage is stored in the same tick.                        *)
C32_AppliedInSameTick == C32_RestartApplied /\ C32_SaveStored

(* The transitions a run of update_ducking makes: it queues the insertion  *)
(* or the removal of the Ducking marker.                                   *)
DuckTransition == commands' = Append(commands, CmdInsert(1, "Ducking"))
StandTransition == commands' = Append(commands, CmdRemove(1, "Ducking"))

(* C33, Standing to Ducking: the vertical scale goes from 1 to one half    *)
(* and the origin goes down by a quarter of the height before the duck,    *)
(* which is the full standing height.                                      *)
C33_DuckStep ==
    (RunsNow("update_ducking") /\ Len(players) = 1 /\ DuckTransition) =>
        /\ ~players[1].ducking
        /\ players[1].scale_y = 2 /\ players'[1].scale_y = 1
        /\ Height(players[1]) = PLAYER_SIZE_Y
        /\ players'[1].pos[2] = players[1].pos[2] - Height(players[1]) \div 4
        /\ players'[1].pos[1] = players[1].pos[1]

(* C33, a successful stand: the vertical scale is 1 again and the origin   *)
(* goes up by half of the height the controller has while it is ducked,    *)
(* a quarter of the full standing height.                                  *)
C33_StandStep ==
    (RunsNow("update_ducking") /\ Len(players) = 1 /\ StandTransition) =>
        /\ players[1].ducking
        /\ players[1].scale_y = 1 /\ players'[1].scale_y = 2
        /\ Height(players[1]) = PLAYER_SIZE_Y \div 2
        /\ players'[1].pos[2] = players[1].pos[2] + Height(players[1]) \div 2
        /\ players'[1].pos[2] = players[1].pos[2] + PLAYER_SIZE_Y \div 4
        /\ players'[1].pos[1] = players[1].pos[1]

(* C33 as stated: a successful stand raises the origin by half of the full *)
(* standing height.                                                        *)
C33_StandStepFull ==
    (RunsNow("update_ducking") /\ Len(players) = 1 /\ StandTransition) =>
        /\ players'[1].scale_y = 2
        /\ players'[1].pos[2] = players[1].pos[2] + PLAYER_SIZE_Y \div 2

C33_StandRaisesHalfOfFull == [][C33_DuckStep /\ C33_StandStepFull]_vars

(* C33: Standing to Ducking halves the vertical scale and lowers the       *)
(* origin by a quarter of the pre-duck height; a successful stand restores *)
(* the vertical scale to 1 and raises the origin by half of the ducked     *)
(* height, which is a quarter of the full standing height.                 *)
C33_DuckStandOffsets == [][C33_DuckStep /\ C33_StandStep]_vars

(* The controller stood up in this tick and the sync point has removed the *)
(* marker: scale 1 again, the collider still at the ducked scale.          *)
C33_Witness ==
    /\ pc = "update"
    /\ "apply_deferred" \in done
    /\ Len(players) = 1
    /\ ~players[1].ducking
    /\ players[1].scale_y = 2
    /\ players[1].collider_scale_y = 1

MovesOf(events) == SelectSeq(events, LAMBDA e : e.action = "Move")
JumpsOf(events) == SelectSeq(events, LAMBDA e : e.action = "Jump")

(* C34, the adapter: whatever keys are held, one run sends exactly one     *)
(* Move, with direction 1 for right alone, -1 for left alone and 0 for     *)
(* both or neither, and one Jump if a jump key is held and none otherwise. *)
C34_State ==
    \A left \in BOOLEAN, right \in BOOLEAN, jump \in BOOLEAN :
        LET events == KeyboardEvents(left, right, jump)
        IN /\ Len(MovesOf(events)) = 1
           /\ MovesOf(events)[1].direction \in {-1, 0, 1}
           /\ MovesOf(events)[1].direction =
                (IF right /\ ~left THEN 1 ELSE IF left /\ ~right THEN -1 ELSE 0)
           /\ Len(JumpsOf(events)) = (IF jump THEN 1 ELSE 0)
           /\ Len(events) = Len(MovesOf(events)) + Len(JumpsOf(events))

(* C34, the tick: a run of keyboard_input appends the events of one key    *)
(* state, no other step sends a movement event, and Update does not end    *)
(* before keyboard_input has run.                                          *)
C34_Step ==
    /\ RunsNow("keyboard_input") =>
          \E left \in BOOLEAN, right \in BOOLEAN, jump \in BOOLEAN :
             movementEvents' = movementEvents \o KeyboardEvents(left, right, jump)
    /\ ~RunsNow("keyboard_input") => Len(movementEvents') <= Len(movementEvents)
    /\ (pc = "update" /\ pc' = "spawn_scene") => "keyboard_input" \in done

(* C34: the input adapter sends exactly one Move per tick, with direction  *)
(* (right held) - (left held), and at most one Jump per tick, in every     *)
(* tick in which a jump key is held.                                       *)
C34_OneMovePerTick == [](C34_State) /\ [][C34_Step]_vars

(* The adapter has run with left and jump held. *)
C34_Witness ==
    /\ pc = "update"
    /\ "keyboard_input" \in done
    /\ "movement" \notin done
    /\ movementEvents = <<Move(-1), Jump>>

(* The levels whose scripts produced the content of the level roots: each  *)
(* script spawns the text "Level <index + 1>" as a child of the root.       *)
ContentIndices ==
    {AllChildren[i].index : i \in {j \in 1..Len(AllChildren) : AllChildren[j].kind = "text"}}

PositionsOf(entities) == [i \in 1..Len(entities) |-> entities[i].pos]

(* The transition requested in the previous tick is committed and no       *)
(* system of Update has run yet.                                           *)
StartOfUpdate == pc = "update" /\ done = {} /\ ~fatal

(* C35: in a level, once the state transition of the tick is committed,    *)
(* the content of the level root comes from the script of the current      *)
(* state's index, and so do the hazards and checkpoints.                   *)
C35_ContentMatchesState ==
    (StartOfUpdate /\ InLevel(gameState) /\ levelRoots # <<>>) =>
        /\ ContentIndices \subseteq {gameState.index}
        /\ ValidIndex(gameState.index) =>
              /\ PositionsOf(spikes) = PositionsOf(GenerateFull(gameState.index).spikes)
              /\ PositionsOf(checkpoints) =
                    PositionsOf(GenerateFull(gameState.index).checkpoints)

(* C36, the state: there is never more than one level root, there is none  *)
(* outside a level once the OnExit systems have run, and there is one at   *)
(* the end of Update of a tick that applied a restart event.               *)
C36_State ==
    /\ Len(levelRoots) <= 1
    /\ (~InLevel(gameState) /\ pc # "handlers") => levelRoots = <<>>
    /\ (EndOfUpdate /\ IsSome(applied)) => Len(levelRoots) = 1

(* C36, the steps: a level root appears only where the commands of an      *)
(* applied restart event are applied, and while the state stays a level a  *)
(* level root that exists is followed by one that exists.                  *)
C36_Step ==
    /\ (levelRoots = <<>> /\ levelRoots' # <<>>) => (IsSome(applied) /\ InLevel(gameState))
    /\ (InLevel(gameState') /\ Len(levelRoots) = 1) => Len(levelRoots') = 1

(* C36: at most one LevelRoot exists in every state, and exactly one from  *)
(* the first applied restart event of a level until the level is exited.   *)
C36_OneLevelRoot == [](C36_State) /\ [][C36_Step]_vars

(* In level 1 a death has been answered by a restore: the old level root   *)
(* is despawned and the new one spawned at the same sync point.            *)
C36_Witness ==
    /\ EndOfUpdate
    /\ gameState = Level(1, FALSE)
    /\ Applied("RestoreLastSave")
    /\ emitted.death = 1
    /\ Len(levelRoots) = 1
    /\ deathCounter > 0

(* C37: once the stages of a tick have run, if SaveData exists, some        *)
(* checkpoint is active and the respawn position of SaveData is that       *)
(* checkpoint's position plus the offset of the save request.              *)
C37_RespawnAtActiveCheckpoint ==
    (EndOfStages /\ IsSome(saveData)) =>
        \E i \in ActiveCheckpoints(checkpoints) :
            Unwrap(saveData).position = SavePosition(checkpoints[i].pos)

EventsOf(q) == [k \in 1..Len(q) |-> q[k].ev]

(* C38, one per tick: a run of setup_level_content takes the oldest unread *)
(* restart event, if there is one, and applies it; nothing else marks an   *)
(* event as applied.                                                       *)
C38_OnePerTick ==
    /\ RunsNow("setup_level_content") =>
          IF restartEvents = <<>>
          THEN restartEvents' = restartEvents /\ applied' = applied
          ELSE restartEvents' = Tail(restartEvents)
               /\ applied' = Some(Head(restartEvents).ev)
    /\ (IsSome(applied') /\ applied' # applied) => RunsNow("setup_level_content")
    /\ (IsSome(applied) /\ pc = "update") => "setup_level_content" \in done

(* C38, the queue: a step that is not a run of setup_level_content keeps   *)
(* every unread restart event, in its place, and adds new ones behind.     *)
C38_QueueKept ==
    ~RunsNow("setup_level_content") =>
        /\ Len(restartEvents') >= Len(restartEvents)
        /\ SubSeq(EventsOf(restartEvents'), 1, Len(restartEvents)) = EventsOf(restartEvents)

(* What holds of the queue: the steps of a frame other than the event      *)
(* update in First keep it.                                                *)
C38_OneAppliedPerTick == [][C38_OnePerTick /\ (pc # "first" => C38_QueueKept)]_vars

(* C38: setup_level_content applies at most one restart event per tick,    *)
(* the others stay queued in emission order and none is lost before it is  *)
(* applied, so that the FullReset of a completion is applied.              *)
C38_AppliedInOrderNoneLost == [][C38_OnePerTick /\ C38_QueueKept]_vars

FullResetsOf(q) == SelectSeq(EventsOf(q), LAMBDA e : e.type = "FullReset")

(* In a frame that begins unpaused with no transition pending, the event   *)
(* update removes no unread FullReset.                                     *)
C38_FullResetKeptWhileUnpaused ==
    [][(pc = "first" /\ IsPaused(gameState) = "Unpaused" /\ IsNone(nextState)) =>
          FullResetsOf(restartEvents') = FullResetsOf(restartEvents)]_vars

(* C39, the steps: the death counter changes only where update_death_counter *)
(* adds one per unread Death event and where the handler of a completion   *)
(* sets it to 0; a Death event is sent only by death_condition; and        *)
(* setup_level, on entering a level, leaves the counter and sets the       *)
(* elapsed time to 0.                                                      *)
C39_Step ==
    /\ deathCounter' # deathCounter =>
          \/ /\ pc = "post" /\ IsPaused(gameState) = "Unpaused"
             /\ deathEvents > 0
             /\ deathCounter' = deathCounter + deathEvents
             /\ deathEvents' = 0
          \/ /\ RunsNow("on_level_completed") /\ completeEvents > 0
             /\ deathCounter' = 0
    /\ (pc = "post" /\ IsPaused(gameState) = "Unpaused") =>
          deathCounter' = deathCounter + deathEvents
    /\ deathEvents' > deathEvents =>
          (RunsNow("death_condition") /\ deathEvents' = deathEvents + 1)
    /\ pc \in {"first", "transition", "handlers"} => deathCounter' = deathCounter
    /\ (pc = "handlers" /\ Head(todo) = "setup_level") => levelStopwatch' = Some(0)

(* C39: the death counter is changed only by Death events, one each, and   *)
(* by a level completion, which resets it; leaving to the main menu and     *)
(* entering a level leaves it as it was, and the elapsed time is 0 on       *)
(* entry.                                                                   *)
C39_DeathCounterSurvivesExit == [][C39_Step]_vars

(* A level has been entered from the menus with deaths counted in an       *)
(* earlier stay: the counter is kept, the elapsed time is 0 and the level  *)
(* content is still to be generated.                                       *)
C39_Witness ==
    /\ StartOfUpdate
    /\ gameState = Level(0, FALSE)
    /\ levelRoots = <<>>
    /\ Len(players) = 1
    /\ deathCounter > 0
    /\ levelStopwatch = Some(0)

(* The level select is open. *)
MenuOpen == gameState = LevelSelect /\ pc = "update" /\ ~fatal

(* Every level button carries the index of its slot on the page shown. *)
C40_ButtonsOfPage ==
    MenuOpen => \A b \in levelButtons : b.idx = levelSelectPage * 9 + b.slot

(* The page is not below 0 and a level of it exists. *)
C40_PageHasLevels ==
    levelSelectPage >= 0 /\ levelSelectPage * 9 < level_count

(* A click on a level button requests that button's level, one below the   *)
(* level count.                                                            *)
C40_ClickStep ==
    (RunsNow("level_button_system") /\ nextState' # nextState) =>
        \E b \in levelButtons :
            /\ nextState' = Some(Level(b.idx, FALSE))
            /\ b.idx < level_count

C40_PageInRange == [](C40_PageHasLevels)

(* With the level count of the source, 2, the forward arrow never pages and *)
(* the three statements hold.                                              *)
C40_WithLevelCountOfSource ==
    [](level_count = LevelCount => (C40_ButtonsOfPage /\ C40_PageHasLevels))
    /\ [][level_count = LevelCount => C40_ClickStep]_vars

=============================================================================
